---- MODULE Spec2Model ----
(***************************************************************************)
(* The plan / validate / execute pipeline of the UAV agent:                *)
(*   PlannerAgent.plan          src/src/agents/multi/planner_agent.py      *)
(*   ToolsNode.validate_and_fix src/src/agents/multi/tools_node.py         *)
(*   ToolsNode.execute          src/src/agents/multi/tools_node.py         *)
(*   MultiAgentCoordinator      src/src/agents/multi/coordinator.py        *)
(*   UAVToolsRegistry           src/src/tools/uav_tools.py                 *)
(*                                                                         *)
(* JSON values.  A plan is decoded from the language model's JSON, so the  *)
(* fields of a step are not typed by the program.  An argument value is a  *)
(* record [t, n, s]: t is its JSON type, n the number, s the string.  A    *)
(* tool name or a dependency is a TLA+ string; a JSON value that is not a  *)
(* string is written with a leading "#" ("#null", "#1").                   *)
(* An optional value (Python None or an object) is a sequence of length    *)
(* at most one.                                                            *)
(***************************************************************************)
EXTENDS Integers, Sequences, FiniteSets, TLC

VARIABLES
  pc,                 \* position of the caller in the pipeline
  runs,               \* number of calls a caller has started
  heap,               \* the PlanStep objects, a reference is an index
  plan,               \* the Plan being processed (optional)
  validated,          \* the ValidatedPlan returned by validate_and_fix (optional)
  fleet,              \* what client.list_drones does during this validation
  frame,              \* the locals of a running ToolsNode.execute (optional)
  calls,              \* per processed step, what tool.invoke did ("none": not invoked)
  report,             \* the ExecutionReport returned by execute (optional)
  exc,                \* the exception in flight or caught (optional)
  result,             \* the record returned by MultiAgentCoordinator.execute (optional)
  execution_history,  \* MultiAgentCoordinator.execution_history
  available_tools,    \* ToolsNode.available_tools, the names in registration order
  agent,              \* MultiAgentGUI.agent is set
  agent_lock,         \* MultiAgentGUI.agent_lock is locked
  threads             \* the worker threads the GUI started: target and position

(* the state of MultiAgentGUI *)
gui == << agent, agent_lock, threads >>

vars == << pc, runs, heap, plan, validated, fleet, frame, calls, report, exc,
           result, execution_history, available_tools, gui >>

----------------------------------------------------------------------------
(* Bounds of the model *)

MaxSteps == 2

MaxRuns == 2

(* the longest plan whose steps have step_ids of their own *)
ChainLen == 3

(* the number of worker threads the GUI starts *)
MaxThreads == 4

(* tool_name_lower[:5], tools_node.py line 475 *)
PrefixLen == 5

(* the limits and replacement values of _validate_and_fix_parameters and *)
(* _validate_physical_meaning                                            *)
AltitudeFloor == 0

AltitudeMin == 5

AltitudeMax == 500

AltitudeCap == 120

CoordLimit == 10000

SpeedMax == 50

SpeedCap == 10

SpeedFloor == 0

SpeedMin == 5

----------------------------------------------------------------------------
(* Strings.  Python's str operations work on characters; a name is looked  *)
(* up here to get its characters.                                          *)

Chars(name) ==
  CASE
       name = "list_drones" -> <<"l", "i", "s", "t", "_", "d", "r", "o", "n", "e", "s">>
    [] name = "get_session_info" -> <<"g", "e", "t", "_", "s", "e", "s", "s", "i", "o", "n", "_", "i", "n", "f", "o">>
    [] name = "get_task_progress" -> <<"g", "e", "t", "_", "t", "a", "s", "k", "_", "p", "r", "o", "g", "r", "e", "s", "s">>
    [] name = "get_weather" -> <<"g", "e", "t", "_", "w", "e", "a", "t", "h", "e", "r">>
    [] name = "get_drone_status" -> <<"g", "e", "t", "_", "d", "r", "o", "n", "e", "_", "s", "t", "a", "t", "u", "s">>
    [] name = "get_nearby_entities" -> <<"g", "e", "t", "_", "n", "e", "a", "r", "b", "y", "_", "e", "n", "t", "i", "t", "i", "e", "s">>
    [] name = "take_off" -> <<"t", "a", "k", "e", "_", "o", "f", "f">>
    [] name = "land" -> <<"l", "a", "n", "d">>
    [] name = "move_to" -> <<"m", "o", "v", "e", "_", "t", "o">>
    [] name = "move_towards" -> <<"m", "o", "v", "e", "_", "t", "o", "w", "a", "r", "d", "s">>
    [] name = "change_altitude" -> <<"c", "h", "a", "n", "g", "e", "_", "a", "l", "t", "i", "t", "u", "d", "e">>
    [] name = "hover" -> <<"h", "o", "v", "e", "r">>
    [] name = "rotate" -> <<"r", "o", "t", "a", "t", "e">>
    [] name = "return_home" -> <<"r", "e", "t", "u", "r", "n", "_", "h", "o", "m", "e">>
    [] name = "set_home" -> <<"s", "e", "t", "_", "h", "o", "m", "e">>
    [] name = "calibrate" -> <<"c", "a", "l", "i", "b", "r", "a", "t", "e">>
    [] name = "take_photo" -> <<"t", "a", "k", "e", "_", "p", "h", "o", "t", "o">>
    [] name = "charge" -> <<"c", "h", "a", "r", "g", "e">>
    [] name = "send_message" -> <<"s", "e", "n", "d", "_", "m", "e", "s", "s", "a", "g", "e">>
    [] name = "broadcast" -> <<"b", "r", "o", "a", "d", "c", "a", "s", "t">>
    [] name = "takeoff" -> <<"t", "a", "k", "e", "o", "f", "f">>
    [] name = "take" -> <<"t", "a", "k", "e">>
    [] name = "LAND" -> <<"L", "A", "N", "D">>
    [] name = "self_destruct" -> <<"s", "e", "l", "f", "_", "d", "e", "s", "t", "r", "u", "c", "t">>
    [] name = "get_wx" -> <<"g", "e", "t", "_", "w", "x">>
    [] name = "$drone_id" -> <<"$", "d", "r", "o", "n", "e", "_", "i", "d">>
    [] name = "drone-001" -> <<"d", "r", "o", "n", "e", "-", "0", "0", "1">>
    [] name = "12" -> <<"1", "2">>
    [] name = "20000" -> <<"2", "0", "0", "0", "0">>
    [] name = "abc" -> <<"a", "b", "c">>
    [] name = "nan" -> <<"n", "a", "n">>
    [] name = "-20000" -> <<"-", "2", "0", "0", "0", "0">>
    [] name = "#null" -> <<"#", "n", "u", "l", "l">>
    [] name = "#1" -> <<"#", "1">>
    [] name = "s1" -> <<"s", "1">>
    [] name = "s2" -> <<"s", "2">>
    [] name = "s3" -> <<"s", "3">>
    [] name = "s4" -> <<"s", "4">>
    [] name = "s5" -> <<"s", "5">>
    [] name = "s9" -> <<"s", "9">>
    [] name = "p1" -> <<"p", "1">>

(* UAVToolsRegistry._register_all_tools: the names, in dict order *)
available_tools_keys ==
  << "list_drones",
     "get_session_info",
     "get_task_progress",
     "get_weather",
     "get_drone_status",
     "get_nearby_entities",
     "take_off",
     "land",
     "move_to",
     "move_towards",
     "change_altitude",
     "hover",
     "rotate",
     "return_home",
     "set_home",
     "calibrate",
     "take_photo",
     "charge",
     "send_message",
     "broadcast" >>

Upper == << "A","B","C","D","E","F","G","H","I","J","K","L","M",
            "N","O","P","Q","R","S","T","U","V","W","X","Y","Z" >>

Lowercase == << "a","b","c","d","e","f","g","h","i","j","k","l","m",
                "n","o","p","q","r","s","t","u","v","w","x","y","z" >>

(* str.lower *)
lower(cs) ==
  [ i \in 1..Len(cs) |->
      IF \E k \in 1..Len(Upper) : Upper[k] = cs[i]
      THEN Lowercase[CHOOSE k \in 1..Len(Upper) : Upper[k] = cs[i]]
      ELSE cs[i] ]

(* a in b, for two strings *)
IsSubstring(a, b) ==
  \E i \in 0..(Len(b) - Len(a)) : SubSeq(b, i + 1, i + Len(a)) = a

(* b.startswith(a) *)
startswith(b, a) ==
  /\ Len(a) <= Len(b)
  /\ SubSeq(b, 1, Len(a)) = a

(* the slice s[:k] *)
SliceTo(s, k) == SubSeq(s, 1, IF Len(s) < k THEN Len(s) ELSE k)

Digits == << "0","1","2","3","4","5","6","7","8","9" >>

IsDigit(c) == \E d \in 1..10 : Digits[d] = c

DigitValue(c) == (CHOOSE d \in 1..10 : Digits[d] = c) - 1

RECURSIVE DecimalValue(_)
DecimalValue(cs) ==
  IF cs = << >> THEN 0
  ELSE 10 * DecimalValue(SubSeq(cs, 1, Len(cs) - 1)) + DigitValue(cs[Len(cs)])

(* the digits of a str after its sign: the number, or no value *)
ParseDigits(body, neg) ==
  IF body # << >> /\ \A i \in 1..Len(body) : IsDigit(body[i])
  THEN << IF neg THEN 0 - DecimalValue(body) ELSE DecimalValue(body) >>
  ELSE << >>

ParseFloat(cs) ==
  IF cs # << >> /\ cs[1] = "-" THEN ParseDigits(Tail(cs), TRUE)
  ELSE ParseDigits(cs, FALSE)


----------------------------------------------------------------------------
(* JSON values and the records of plan_schema.py *)

NumV(n) == [t |-> "num", n |-> n, s |-> ""]

StrV(s) == [t |-> "str", n |-> 0, s |-> s]

NullV == [t |-> "null", n |-> 0, s |-> ""]

(* float('nan'), which json.loads gives for NaN: a number that every      *)
(* comparison answers False for                                            *)
NaN == [t |-> "num", n |-> 0, s |-> "nan"]

IsNaN(v) == v.t = "num" /\ v.s = "nan"

(* the text is nan, in any case and with or without a sign *)
IsNanText(cs) ==
  lower(IF cs # << >> /\ cs[1] \in {"-", "+"} THEN Tail(cs) ELSE cs) = << "n", "a", "n" >>

Floats(numbers) == [k \in 1..Len(numbers) |-> NumV(numbers[k])]

(* float(s) for a str s: the number, or no value when ValueError is raised *)
float(s) == IF IsNanText(Chars(s)) THEN << NaN >> ELSE Floats(ParseFloat(Chars(s)))

(* v < k, v > k and v <= k for a number v of a step and a constant k *)
Less(v, k) == ~IsNaN(v) /\ v.n < k

Greater(v, k) == ~IsNaN(v) /\ v.n > k

AtMost(v, k) == ~IsNaN(v) /\ v.n <= k

(* the value of a key that is not in the dict *)
Absent == [t |-> "absent", n |-> 0, s |-> ""]

ArgKeys == {"drone_id", "altitude", "x", "y", "z", "speed", "input_json"}

EmptyArgs == [k \in ArgKeys |-> Absent]

(* key in args *)
HasKey(args, k) == args[k].t # "absent"

(* isinstance(v, (int, float)) and isinstance(v, str) *)
IsNumber(v) == v.t = "num"

IsStr(v) == v.t = "str"

(* a tool name or dependency decoded from JSON is a str *)
IsStrName(name) == Chars(name)[1] # "#"

PlanStep(step_id, tool_name, args, dependencies) ==
  [ step_id |-> step_id, tool_name |-> tool_name, args |-> args,
    dependencies |-> dependencies, status |-> "pending" ]

ValidationFix(step_id, fix_type, original_value, fixed_value) ==
  [ step_id |-> step_id, fix_type |-> fix_type,
    original_value |-> original_value, fixed_value |-> fixed_value ]

ExecutionResult(step_id, success, output, error) ==
  [ step_id |-> step_id, success |-> success, output |-> output, error |-> error ]

(* The text of an error.  kind "deps" is the message of lines 201-209 with *)
(* the three lists it joins; "not_found" and "exception" carry no list.    *)
ErrorText(kind, missing, blocked, pending) ==
  [ kind |-> kind, missing |-> missing, blocked |-> blocked, pending |-> pending ]

NoError == ErrorText("none", << >>, << >>, << >>)

----------------------------------------------------------------------------
(* ToolsNode._suggest_alternative_tool *)

(* the first tool, in the order of the dict, among those at the indexes hits *)
FirstTool(hits) ==
  IF hits = {} THEN << >>
  ELSE << available_tools[CHOOSE i \in hits : \A j \in hits : i <= j] >>

(* line 470 *)
SubstringMatch(tool_name_lower, tool_lower) ==
  \/ IsSubstring(tool_name_lower, tool_lower)
  \/ IsSubstring(tool_lower, tool_name_lower)

(* the loop of lines 469-471 *)
BySubstring(tool_name_lower) ==
  FirstTool({ i \in 1..Len(available_tools) :
                SubstringMatch(tool_name_lower, lower(Chars(available_tools[i]))) })

(* the loop of lines 474-476 *)
ByPrefix(tool_name_lower) ==
  FirstTool({ i \in 1..Len(available_tools) :
                startswith(lower(Chars(available_tools[i])),
                           SliceTo(tool_name_lower, PrefixLen)) })

OrElse(first, second) == IF first # << >> THEN first ELSE second

SuggestFor(tool_name_lower) ==
  OrElse(BySubstring(tool_name_lower), ByPrefix(tool_name_lower))

suggest_alternative_tool(tool_name) == SuggestFor(lower(Chars(tool_name)))

(* name in self.available_tools *)
ToolExists(tool_name) ==
  \E i \in 1..Len(available_tools) : available_tools[i] = tool_name

----------------------------------------------------------------------------
(* ToolsNode._validate_and_fix_parameters.  c is the step as the function  *)
(* has changed it so far with the fixes it has appended; each part gives   *)
(* the same after its own assignments.                                     *)

(* drones[0].get('id', drones[0].get('name')) of the fleet the model uses *)
FirstDroneId == "drone-001"

Changed(step, fixes) == [step |-> step, fixes |-> fixes]

(* a fix built after the assignment: original_value reads the new value *)
FixedAfterAssign(c, key, fix_type, value) ==
  Changed([c.step EXCEPT !.args[key] = value],
          Append(c.fixes, ValidationFix(c.step.step_id, fix_type, value, value)))

(* step.args[key] = value, with the fix appended for it *)
Fixed(c, key, fix_type, value) ==
  Changed([c.step EXCEPT !.args[key] = value],
          Append(c.fixes, ValidationFix(c.step.step_id, fix_type,
                                        c.step.args[key], value)))

(* a resolution that takes the first drone whatever list_drones did *)
ResolveDroneIdAlways(c, fl) ==
  IF /\ HasKey(c.step.args, "drone_id")
     /\ IsStr(c.step.args["drone_id"])
     /\ startswith(Chars(c.step.args["drone_id"].s), << "$" >>)
  THEN Fixed(c, "drone_id", "resolved_reference", StrV(FirstDroneId))
  ELSE c

(* lines 338-356 *)
ResolveDroneId(c, fl) ==
  IF /\ HasKey(c.step.args, "drone_id")
     /\ IsStr(c.step.args["drone_id"])
     /\ startswith(Chars(c.step.args["drone_id"].s), << "$" >>)
     /\ fl = "drones"      \* list_drones did not raise and the list is not empty
  THEN Fixed(c, "drone_id", "resolved_reference", StrV(FirstDroneId))
  ELSE c

(* a check that has the floor and not the ceiling *)
FixAltitudeFloorOnly(c) ==
  IF /\ HasKey(c.step.args, "altitude") /\ IsNumber(c.step.args["altitude"])
     /\ Less(c.step.args["altitude"], AltitudeFloor)
  THEN Fixed(c, "altitude", "invalid_range", NumV(AltitudeMin))
  ELSE c

(* lines 359-379 *)
FixAltitude(c) ==
  IF HasKey(c.step.args, "altitude") /\ IsNumber(c.step.args["altitude"])
  THEN IF Less(c.step.args["altitude"], AltitudeFloor)
       THEN Fixed(c, "altitude", "invalid_range", NumV(AltitudeMin))
       ELSE IF Greater(c.step.args["altitude"], AltitudeMax)
       THEN Fixed(c, "altitude", "invalid_range", NumV(AltitudeCap))
       ELSE c
  ELSE c

(* an except branch that records the fix and forgets the assignment of    *)
(* line 397                                                                *)
CoerceWithoutAssign(c, coord_key, number) ==
  IF number # << >>
  THEN Changed([c.step EXCEPT !.args[coord_key] = number[1]], c.fixes)
  ELSE Changed(c.step,
               Append(c.fixes, ValidationFix(c.step.step_id, "invalid_type",
                                             c.step.args[coord_key], NumV(0))))

(* lines 387-397: the try and its except *)
Coerce(c, coord_key, number) ==
  IF number # << >>
  THEN Changed([c.step EXCEPT !.args[coord_key] = number[1]], c.fixes)
  ELSE Fixed(c, coord_key, "invalid_type", NumV(0))

(* lines 383-397 *)
FixCoordinate(c, coord_key) ==
  IF HasKey(c.step.args, coord_key) /\ IsStr(c.step.args[coord_key])
  THEN Coerce(c, coord_key, float(c.step.args[coord_key].s))
  ELSE c

validate_and_fix_parameters(c, fl) ==
  IF ~ToolExists(c.step.tool_name) THEN c
  ELSE FixCoordinate(
         FixCoordinate(
           FixCoordinate(FixAltitude(ResolveDroneId(c, fl)), "x"), "y"), "z")

----------------------------------------------------------------------------
(* ToolsNode._validate_physical_meaning *)

Abs(n) == IF n < 0 THEN 0 - n ELSE n

(* abs(value): abs(nan) is nan *)
AbsV(v) == [v EXCEPT !.n = Abs(v.n)]

(* a check of value > 10000, without abs *)
CheckCoordinateNoAbs(c, coord) ==
  IF /\ c.step.tool_name \in {"move_to", "move_towards"}
     /\ HasKey(c.step.args, coord)
     /\ IsNumber(c.step.args[coord])
     /\ Greater(c.step.args[coord], CoordLimit)
  THEN Fixed(c, coord, "physically_unreasonable", NumV(0))
  ELSE c

(* lines 418-430 *)
CheckCoordinate(c, coord) ==
  IF /\ c.step.tool_name \in {"move_to", "move_towards"}
     /\ HasKey(c.step.args, coord)
     /\ IsNumber(c.step.args[coord])
     /\ Greater(AbsV(c.step.args[coord]), CoordLimit)
  THEN Fixed(c, coord, "physically_unreasonable", NumV(0))
  ELSE c

(* a check that has the cap and not the floor *)
CheckSpeedCapOnly(c) ==
  IF /\ HasKey(c.step.args, "speed") /\ IsNumber(c.step.args["speed"])
     /\ Greater(c.step.args["speed"], SpeedMax)
  THEN Fixed(c, "speed", "physically_unreasonable", NumV(SpeedCap))
  ELSE c

(* lines 433-453 *)
CheckSpeed(c) ==
  IF HasKey(c.step.args, "speed") /\ IsNumber(c.step.args["speed"])
  THEN IF Greater(c.step.args["speed"], SpeedMax)
       THEN Fixed(c, "speed", "physically_unreasonable", NumV(SpeedCap))
       ELSE IF AtMost(c.step.args["speed"], SpeedFloor)
       THEN Fixed(c, "speed", "physically_unreasonable", NumV(SpeedMin))
       ELSE c
  ELSE c

validate_physical_meaning(c) ==
  CheckSpeed(CheckCoordinate(CheckCoordinate(CheckCoordinate(c, "x"), "y"), "z"))

----------------------------------------------------------------------------
(* ToolsNode.validate_and_fix.  A PlanStep is an object: the plan and the  *)
(* normalized list hold references into heap, and an assignment to a field *)
(* of a step writes the object the reference names.                        *)

(* a validator that works on the step it was given *)
SameStep(h, ref) == [heap |-> h, ref |-> ref]

(* PlanStep.from_dict(step.to_dict()): asdict copies the step with its     *)
(* args and dependencies, from_dict builds a new object from the copy      *)
CopyStep(h, ref) == [heap |-> Append(h, h[ref]), ref |-> Len(h) + 1]

Warning(step_id, tool_name, kind) ==
  [ step_id |-> step_id, tool_name |-> tool_name, kind |-> kind ]

(* the locals of validate_and_fix, with the heap and whether it raised *)
ValidationState(h) ==
  [ heap |-> h, fixes |-> << >>, warnings |-> << >>,
    normalized_steps |-> << >>, raised |-> FALSE ]

(* lines 119-126: the fixes of both checks are kept, the step is validated *)
Checked(st, nref, c) ==
  [ st EXCEPT
      !.heap[nref] = [c.step EXCEPT !.status = "validated"],
      !.fixes = st.fixes \o c.fixes,
      !.normalized_steps = Append(st.normalized_steps, nref) ]

(* checks 2 and 3, lines 117-126 *)
CheckParameters(st, nref, fl) ==
  Checked(st, nref,
          validate_physical_meaning(
            validate_and_fix_parameters(Changed(st.heap[nref], << >>), fl)))

(* lines 96-102 *)
ToolNotFound(step, fixed_value) ==
  ValidationFix(step.step_id, "tool_not_found", StrV(step.tool_name), fixed_value)

(* a validator that leaves a step with no suggestion out of the list *)
SuggestOrDrop(st, step, nref, fl, suggested_tool) ==
  IF suggested_tool # << >>
  THEN CheckParameters(
         [ st EXCEPT
             !.heap[nref].tool_name = suggested_tool[1],
             !.fixes = Append(st.fixes, ToolNotFound(step, StrV(suggested_tool[1]))),
             !.warnings = Append(st.warnings,
                                 Warning(step.step_id, step.tool_name, "using")) ],
         nref, fl)
  ELSE [ st EXCEPT
           !.heap[nref].status = "skipped",
           !.fixes = Append(st.fixes, ToolNotFound(step, NullV)),
           !.warnings = Append(st.warnings,
                               Warning(step.step_id, step.tool_name, "skipping")) ]

(* a validator that has no continue at line 115: the step with no          *)
(* suggestion goes through checks 2 and 3 and is then marked validated     *)
SuggestThenCheck(st, step, nref, fl, suggested_tool) ==
  CheckParameters(
    [ st EXCEPT
        !.heap[nref].tool_name =
           IF suggested_tool # << >> THEN suggested_tool[1] ELSE step.tool_name,
        !.fixes = Append(st.fixes,
                         ToolNotFound(step, IF suggested_tool # << >>
                                            THEN StrV(suggested_tool[1]) ELSE NullV)),
        !.warnings = Append(st.warnings,
                            Warning(step.step_id, step.tool_name,
                                    IF suggested_tool # << >> THEN "using"
                                    ELSE "skipping")) ],
    nref, fl)

(* lines 105-115 *)
Suggest(st, step, nref, fl, suggested_tool) ==
  IF suggested_tool # << >>
  THEN CheckParameters(
         [ st EXCEPT
             !.heap[nref].tool_name = suggested_tool[1],
             !.fixes = Append(st.fixes, ToolNotFound(step, StrV(suggested_tool[1]))),
             !.warnings = Append(st.warnings,
                                 Warning(step.step_id, step.tool_name, "using")) ],
         nref, fl)
  ELSE [ st EXCEPT
           !.heap[nref].status = "skipped",
           !.fixes = Append(st.fixes, ToolNotFound(step, NullV)),
           !.warnings = Append(st.warnings,
                               Warning(step.step_id, step.tool_name, "skipping")),
           !.normalized_steps = Append(st.normalized_steps, nref) ]

(* lines 94-126, for the step and the reference nref of its copy *)
CheckTool(st, step, nref, fl) ==
  IF ToolExists(step.tool_name)
  THEN CheckParameters(st, nref, fl)
  ELSE IF ~IsStrName(step.tool_name)
  THEN \* tool_name.lower() raises AttributeError
       [st EXCEPT !.fixes = Append(st.fixes, ToolNotFound(step, NullV)),
                  !.raised = TRUE]
  ELSE Suggest(st, step, nref, fl, suggest_alternative_tool(step.tool_name))

Copied(st, ref, cp, fl) ==
  CheckTool([st EXCEPT !.heap = cp.heap], cp.heap[ref], cp.ref, fl)

(* one iteration of the loop of lines 87-126 *)
ValidateStep(st, ref, fl) == Copied(st, ref, CopyStep(st.heap, ref), fl)

RECURSIVE ValidateLoop(_, _, _, _)
ValidateLoop(st, steps, i, fl) ==
  IF i > Len(steps) \/ st.raised THEN st
  ELSE ValidateLoop(ValidateStep(st, steps[i], fl), steps, i + 1, fl)

(* a validator for which no fix makes a plan invalid *)
IsValidWhateverFixes(fixes) == TRUE

(* line 128 *)
IsValid(fixes) ==
  Len(SelectSeq(fixes, LAMBDA f : f.fix_type = "tool_not_found")) = 0

ValidatedPlan(plan_id, normalized_steps, fixes, validation_warnings) ==
  [ plan_id |-> plan_id, normalized_steps |-> normalized_steps, fixes |-> fixes,
    validation_warnings |-> validation_warnings, is_valid |-> IsValid(fixes) ]

(* the heap after the call, the ValidatedPlan returned, whether it raised *)
Validation(p, st) ==
  [ heap |-> st.heap,
    raised |-> st.raised,
    validated_plan |-> ValidatedPlan(p.plan_id, st.normalized_steps,
                                     st.fixes, st.warnings) ]

validate_and_fix(p, h, fl) ==
  Validation(p, ValidateLoop(ValidationState(h), p.steps, 1, fl))

----------------------------------------------------------------------------
(* ToolsNode.execute.  frame holds the locals of the running call.         *)

(* an executor that keeps its results and its sets on the node, and starts *)
(* a call from what the call before left in them                           *)
KeptFrame(all_step_ids) ==
  [ i |-> 1,
    execution_results |-> IF report = << >> THEN << >> ELSE report[1].execution_results,
    errors |-> IF report = << >> THEN << >> ELSE report[1].errors,
    all_step_ids |-> all_step_ids,
    completed_step_ids |->
      IF report = << >> THEN {}
      ELSE { report[1].execution_results[k].step_id :
               k \in { j \in 1..Len(report[1].execution_results) :
                         report[1].execution_results[j].success } },
    failed_step_ids |-> {},
    skipped_step_ids |-> {} ]

(* lines 173-179 *)
FreshFrame(all_step_ids) ==
  [ i |-> 1, execution_results |-> << >>, errors |-> << >>,
    all_step_ids |-> all_step_ids, completed_step_ids |-> {},
    failed_step_ids |-> {}, skipped_step_ids |-> {} ]

InSeq(x, seq) == \E k \in 1..Len(seq) : seq[k] = x

(* the three lists of lines 190-198 *)
missing_deps(fr, step) ==
  SelectSeq(step.dependencies, LAMBDA dep : dep \notin fr.all_step_ids)

(* an executor that is stopped by failed dependencies and not by skipped   *)
(* ones                                                                    *)
blocked_deps_failed_only(fr, step) ==
  SelectSeq(step.dependencies, LAMBDA dep : dep \in fr.failed_step_ids)

blocked_deps(fr, step) ==
  SelectSeq(step.dependencies,
            LAMBDA dep : dep \in fr.failed_step_ids \/ dep \in fr.skipped_step_ids)

(* an executor that does not look for dependencies that are still to come *)
pending_deps_ignored(fr, step) == << >>

pending_deps(fr, step) ==
  SelectSeq(step.dependencies,
            LAMBDA dep : /\ dep \in fr.all_step_ids
                         /\ dep \notin fr.completed_step_ids
                         /\ dep \notin fr.failed_step_ids
                         /\ dep \notin fr.skipped_step_ids)

(* line 200, under the test of line 189 *)
DependenciesUnmet(fr, step) ==
  /\ step.dependencies # << >>
  /\ \/ missing_deps(fr, step) # << >>
     \/ blocked_deps(fr, step) # << >>
     \/ pending_deps(fr, step) # << >>

(* ', '.join(deps) raises TypeError when an element is not a str *)
JoinRaises(deps) == \E k \in 1..Len(deps) : ~IsStrName(deps[k])

(* a loop body that has no test of the status at line 183 *)
BranchIgnoringStatus(fr, step) ==
  IF DependenciesUnmet(fr, step)
  THEN IF \/ JoinRaises(missing_deps(fr, step))
          \/ JoinRaises(blocked_deps(fr, step))
          \/ JoinRaises(pending_deps(fr, step))
       THEN "raises" ELSE "blocked"
  ELSE IF ~ToolExists(step.tool_name) THEN "not_found"
  ELSE "invoke"

(* what the loop body does with a step: lines 183, 200 and 237 *)
Branch(fr, step) ==
  IF step.status = "skipped" THEN "skipped"
  ELSE IF DependenciesUnmet(fr, step)
       THEN IF \/ JoinRaises(missing_deps(fr, step))
               \/ JoinRaises(blocked_deps(fr, step))
               \/ JoinRaises(pending_deps(fr, step))
            THEN "raises" ELSE "blocked"
  ELSE IF ~ToolExists(step.tool_name) THEN "not_found"
  ELSE "invoke"

(* tool.invoke(step.args).  Every tool of uav_tools.py catches the error   *)
(* of the API client and returns a text that starts with "Error": the call *)
(* then returns normally.  invoke itself raises when the tool framework    *)
(* rejects the input before the function body runs.                        *)
ToolOutcomes == {"ok", "api_error", "raise"}

(* a dependency-blocked step: lines 201-220 *)
BlockedResult(fr, step) ==
  ExecutionResult(step.step_id, FALSE, "none",
                  ErrorText("deps", missing_deps(fr, step),
                            blocked_deps(fr, step), pending_deps(fr, step)))

(* the keys of a dict of arguments *)
Keys(args) == { k \in ArgKeys : HasKey(args, k) }

(* what tool.invoke is given: line 249 *)
InvokeInput(step) == step.args

(* the ExecutionResult of an invoked tool: lines 249-254 and 263-269 *)
InvokeResult(step, outcome) ==
  IF outcome = "raise"
  THEN ExecutionResult(step.step_id, FALSE, "none",
                       ErrorText("exception", << >>, << >>, << >>))
  ELSE ExecutionResult(step.step_id, TRUE,
                       IF outcome = "ok" THEN "json" ELSE "error_text", NoError)

ErrorEntry(r) == [step_id |-> r.step_id, error |-> r.error]

(* lines 278-284 without the test of line 281: every step is completed *)
RecordCompleted(fr, r) ==
  [ fr EXCEPT
      !.i = fr.i + 1,
      !.execution_results = Append(fr.execution_results, r),
      !.errors = IF r.success THEN fr.errors ELSE Append(fr.errors, ErrorEntry(r)),
      !.completed_step_ids = fr.completed_step_ids \cup {r.step_id} ]

(* lines 263-284 without the errors.append of line 270 *)
RecordWithoutErrors(fr, r) ==
  [ fr EXCEPT
      !.i = fr.i + 1,
      !.execution_results = Append(fr.execution_results, r),
      !.completed_step_ids = IF r.success THEN fr.completed_step_ids \cup {r.step_id}
                             ELSE fr.completed_step_ids,
      !.failed_step_ids = IF r.success THEN fr.failed_step_ids
                          ELSE fr.failed_step_ids \cup {r.step_id} ]

(* lines 278-284 *)
Record(fr, r) ==
  [ fr EXCEPT
      !.i = fr.i + 1,
      !.execution_results = Append(fr.execution_results, r),
      !.errors = IF r.success THEN fr.errors ELSE Append(fr.errors, ErrorEntry(r)),
      !.completed_step_ids = IF r.success THEN fr.completed_step_ids \cup {r.step_id}
                             ELSE fr.completed_step_ids,
      !.failed_step_ids = IF r.success THEN fr.failed_step_ids
                          ELSE fr.failed_step_ids \cup {r.step_id} ]

(* a loop body whose refusal falls through to lines 278-284 instead of the *)
(* continue of line 224: the step is skipped and failed                    *)
ProcessStepFallingThrough(fr, step, outcome) ==
  LET branch == Branch(fr, step)
  IN  IF branch = "skipped"
      THEN [ fr EXCEPT !.i = fr.i + 1,
                       !.skipped_step_ids = fr.skipped_step_ids \cup {step.step_id} ]
      ELSE IF branch = "blocked"
      THEN [ fr EXCEPT
               !.i = fr.i + 1,
               !.errors = Append(fr.errors, ErrorEntry(BlockedResult(fr, step))),
               !.execution_results = Append(fr.execution_results,
                                            BlockedResult(fr, step)),
               !.skipped_step_ids = fr.skipped_step_ids \cup {step.step_id},
               !.failed_step_ids = fr.failed_step_ids \cup {step.step_id} ]
      ELSE IF branch = "not_found"
      THEN Record(fr, ExecutionResult(step.step_id, FALSE, "none",
                        ErrorText("not_found", << >>, << >>, << >>)))
      ELSE Record(fr, InvokeResult(step, outcome))

(* one iteration of the loop of lines 182-284, for a step that does not raise *)
ProcessStep(fr, step, outcome) ==
  LET branch == Branch(fr, step)
  IN  IF branch = "skipped"
      THEN [ fr EXCEPT !.i = fr.i + 1,
                       !.skipped_step_ids = fr.skipped_step_ids \cup {step.step_id} ]
      ELSE IF branch = "blocked"
      THEN [ fr EXCEPT
               !.i = fr.i + 1,
               !.errors = Append(fr.errors, ErrorEntry(BlockedResult(fr, step))),
               !.execution_results = Append(fr.execution_results,
                                            BlockedResult(fr, step)),
               !.skipped_step_ids = fr.skipped_step_ids \cup {step.step_id} ]
      ELSE IF branch = "not_found"
      THEN Record(fr, ExecutionResult(step.step_id, FALSE, "none",
                        ErrorText("not_found", << >>, << >>, << >>)))
      ELSE Record(fr, InvokeResult(step, outcome))

(* a status that has no "partial" *)
FinalStatusAllOrNothing(execution_results) ==
  IF \E k \in 1..Len(execution_results) : ~execution_results[k].success
  THEN "failed" ELSE "completed"

(* lines 286-290 *)
FinalStatus(execution_results) ==
  IF \E k \in 1..Len(execution_results) : ~execution_results[k].success
  THEN IF \E k \in 1..Len(execution_results) : execution_results[k].success
       THEN "partial" ELSE "failed"
  ELSE "completed"

(* a summary that asks first whether no result succeeded *)
generate_summary_none_first(results) ==
  LET successful == Len(SelectSeq(results, LAMBDA r : r.success))
      total == Len(results)
  IN  [ kind |-> IF successful = 0 THEN "none"
                 ELSE IF successful = total THEN "all" ELSE "some",
        successful |-> successful, total |-> total ]

(* ToolsNode._generate_summary: which of the three sentences, and its numbers *)
generate_summary(results) ==
  LET successful == Len(SelectSeq(results, LAMBDA r : r.success))
      total == Len(results)
  IN  [ kind |-> IF successful = total THEN "all"
                 ELSE IF successful = 0 THEN "none" ELSE "some",
        successful |-> successful, total |-> total ]

(* lines 295-301 *)
ExecutionReport(plan_id, fr) ==
  [ plan_id |-> plan_id, execution_results |-> fr.execution_results,
    errors |-> fr.errors, final_status |-> FinalStatus(fr.execution_results),
    summary |-> generate_summary(fr.execution_results) ]

----------------------------------------------------------------------------
(* PlannerAgent.plan and MultiAgentCoordinator *)

(* plan_id is a fresh uuid: the number of the call stands for it *)
Plan(plan_id, steps, status) ==
  [ plan_id |-> plan_id, steps |-> steps, status |-> status ]

(* PlannerAgent.plan: the plan decoded from the model's answer; when the   *)
(* call or the decoding raises, the fallback plan of lines 255-260         *)
planner_plan(plan_id, llm) ==
  IF llm.ok THEN Plan(plan_id, [k \in 1..Len(llm.steps) |-> k], "draft")
  ELSE Plan(plan_id, << >>, "failed")

(* the steps a reference list names: to_dict of a plan or a validated plan *)
Deref(h, refs) == [k \in 1..Len(refs) |-> h[refs[k]]]

plan_to_dict(p, h) == [p EXCEPT !.steps = Deref(h, p.steps)]

validated_to_dict(v, h) ==
  [v EXCEPT !.normalized_steps = Deref(h, v.normalized_steps)]

Output(kind, text) == [kind |-> kind, text |-> text]

Result(success, output, p, v, e) ==
  [ success |-> success, output |-> output, plan |-> p,
    validation |-> v, execution |-> e ]

(* coordinator.py lines 151-158 *)
NoPlanResult(p, h) ==
  Result(FALSE, Output("no_plan", "rationale"), << plan_to_dict(p, h) >>, << >>, << >>)

(* coordinator.py lines 163-170 *)
ValidationFailedResult(p, v, h) ==
  Result(FALSE, Output("validation_failed", "warnings"),
         << plan_to_dict(p, h) >>, << validated_to_dict(v, h) >>, << >>)

(* a success flag that looks at final_status alone *)
SuccessByStatus(execution_report) ==
  execution_report.final_status \in {"completed", "partial"}

(* coordinator.py lines 269-273 *)
OverallSuccess(execution_report) ==
  /\ execution_report.final_status \in {"completed", "partial"}
  /\ Len(execution_report.errors) = 0

(* MultiAgentCoordinator._aggregate_results *)
aggregate_results(p, v, execution_report, h) ==
  Result(OverallSuccess(execution_report),
         Output("aggregated", execution_report.summary.kind),
         << plan_to_dict(p, h) >>, << validated_to_dict(v, h) >>,
         << execution_report >>)

(* a coordinator that lets the exception through: execute returns nothing *)
Propagated(e) == << >>

(* coordinator.py lines 202-216: what execute returns for the exception e *)
ExceptionResult(e) ==
  << Result(FALSE, Output("error", e), << >>, << >>, << >>) >>

(* a coordinator that stores the text of the summary as the status *)
HistoryEntryOfSummary(p, execution_report) ==
  [ plan_id |-> p.plan_id, status |-> execution_report.summary.kind ]

(* coordinator.py lines 183-188 *)
HistoryEntry(p, execution_report) ==
  [ plan_id |-> p.plan_id, status |-> execution_report.final_status ]

----------------------------------------------------------------------------
(* The plans the model draws from *)

StepIds == {"s1", "s2"}

Args(drone_id, altitude, x, y, z, speed) ==
  [ drone_id |-> drone_id, altitude |-> altitude, x |-> x, y |-> y, z |-> z,
    speed |-> speed, input_json |-> Absent ]

(* every sequence of at most MaxSteps steps of the pool *)
StepLists(pool) == UNION { [1..n -> pool] : n \in 0..MaxSteps }

(* steps for the executor: known and unknown tools, every shape of dependency *)
NodeSteps ==
  { PlanStep(id, tool, EmptyArgs, deps) :
      id \in StepIds, tool \in {"list_drones", "self_destruct"},
      deps \in { << >>, <<"s1">>, <<"s2">>, <<"s9">>, <<"s1", "s2">> } }

(* what the language model may answer to the coordinator *)
CoordSteps ==
  { PlanStep("s1", "list_drones", EmptyArgs, << >>),
    PlanStep("s2", "take_off",
             Args(StrV("$drone_id"), NumV(-5), Absent, Absent, Absent, Absent),
             <<"s1">>),
    PlanStep("s2", "list_drones", EmptyArgs, <<"s9">>),
    PlanStep("s1", "self_destruct", EmptyArgs, << >>),
    PlanStep("s1", "take", EmptyArgs, << >>),
    PlanStep("s1", "#null", EmptyArgs, << >>),
    PlanStep("s2", "list_drones", EmptyArgs, <<"#1">>) }

LLMAnswers(pool) ==
  { [ok |-> TRUE, steps |-> steps] : steps \in StepLists(pool) }
    \cup { [ok |-> FALSE, steps |-> << >>] }

(* client.list_drones during validation: raises, no drone, some drones *)
Fleets == {"raise", "empty", "drones"}

----------------------------------------------------------------------------
(* The calls.  A call of MultiAgentCoordinator.execute is the actions      *)
(* Coord*; the calls of ToolsNode.validate_and_fix and ToolsNode.execute   *)
(* are the same actions whether the coordinator or another caller (a test) *)
(* makes them.                                                             *)

StepsOf(v, h) == Deref(h, v.normalized_steps)

(* a caller holds a new Plan whose steps are the objects 1..Len(steps) *)
NewPlan(p, steps) ==
  /\ plan' = << p >>
  /\ heap' = steps
  /\ validated' = << >>
  /\ fleet' = "none"
  /\ frame' = << >>
  /\ calls' = << >>
  /\ exc' = << >>
  /\ result' = << >>
  /\ pc' = "planned"

(* coordinator.py line 149 *)
CoordPlan ==
  /\ pc \in {"idle", "done"}
  /\ runs < MaxRuns
  /\ \E llm \in LLMAnswers(CoordSteps) :
       NewPlan(planner_plan(runs + 1, llm), llm.steps)
  /\ runs' = runs + 1
  /\ report' = << >>
  /\ UNCHANGED << execution_history, available_tools, gui >>

(* a coordinator that validates whatever the planner returned *)
AlwaysValidate(p) == "validate"

(* coordinator.py line 151 *)
AfterPlanning(p) == IF p.steps = << >> THEN "return" ELSE "validate"

(* a coordinator that executes whatever the validator returned *)
AlwaysExecute(v) == "execute"

(* coordinator.py line 163 *)
AfterValidation(v) == IF v.is_valid THEN "execute" ELSE "return"

CoordNoPlan ==
  /\ pc = "planned"
  /\ AfterPlanning(plan[1]) = "return"
  /\ result' = << NoPlanResult(plan[1], heap) >>
  /\ pc' = "done"
  /\ UNCHANGED << runs, heap, plan, validated, fleet, frame, calls, report, exc,
                  execution_history, available_tools, gui >>

(* validate_and_fix returned v or raised *)
ValidateReturns(v) ==
  IF v.raised
  THEN /\ heap' = SubSeq(v.heap, 1, Len(plan[1].steps))
       /\ validated' = << >>
       /\ exc' = << "AttributeError" >>
       /\ pc' = "raised"
  ELSE /\ heap' = v.heap
       /\ validated' = << v.validated_plan >>
       /\ exc' = exc
       /\ pc' = "validated"

(* list_drones is called only for a drone_id that starts with "$"; when no *)
(* step has one, what the fleet API would do is not observed             *)
FleetChoices(p, h) ==
  IF \E k \in 1..Len(p.steps) :
       /\ IsStr(h[p.steps[k]].args["drone_id"])
       /\ startswith(Chars(h[p.steps[k]].args["drone_id"].s), << "$" >>)
  THEN Fleets ELSE {"unused"}

(* a call of ToolsNode.validate_and_fix(plan) *)
ValidateCall ==
  /\ pc = "planned"
  /\ \E fl \in FleetChoices(plan[1], heap) :
       /\ fleet' = fl
       /\ ValidateReturns(validate_and_fix(plan[1], heap, fl))
  /\ UNCHANGED << runs, plan, frame, calls, report, result, execution_history,
                  available_tools, gui >>

(* coordinator.py line 161 *)
CoordValidate ==
  /\ pc = "planned"
  /\ AfterPlanning(plan[1]) = "validate"
  /\ ValidateCall

CoordInvalid ==
  /\ pc = "validated"
  /\ AfterValidation(validated[1]) = "return"
  /\ result' = << ValidationFailedResult(plan[1], validated[1], heap) >>
  /\ pc' = "done"
  /\ UNCHANGED << runs, heap, plan, validated, fleet, frame, calls, report, exc,
                  execution_history, available_tools, gui >>

(* a call of ToolsNode.execute(validated_plan): lines 173-179 *)
ExecBegin ==
  /\ pc = "validated"
  /\ frame' = << FreshFrame({ st.step_id : st \in
                   { heap[validated[1].normalized_steps[k]] :
                       k \in 1..Len(validated[1].normalized_steps) } }) >>
  /\ calls' = << >>
  /\ pc' = "executing"
  /\ UNCHANGED << runs, heap, plan, validated, fleet, report, exc, result,
                  execution_history, available_tools, gui >>

(* coordinator.py line 173 *)
CoordExecute ==
  /\ pc = "validated"
  /\ AfterValidation(validated[1]) = "execute"
  /\ ExecBegin

(* one iteration of the loop of ToolsNode.execute *)
ExecStep ==
  /\ pc = "executing"
  /\ frame[1].i <= Len(validated[1].normalized_steps)
  /\ LET fr == frame[1]
         step == heap[validated[1].normalized_steps[fr.i]]
         branch == Branch(fr, step)
     IN  IF branch = "raises"
         THEN /\ frame' = << >>
              /\ exc' = << "TypeError" >>
              /\ pc' = "raised"
              /\ calls' = calls
         ELSE /\ \E outcome \in (IF branch = "invoke" THEN ToolOutcomes ELSE {"none"}) :
                   /\ frame' = << ProcessStep(fr, step, outcome) >>
                   /\ calls' = Append(calls, outcome)
              /\ UNCHANGED << pc, exc >>
  /\ UNCHANGED << runs, heap, plan, validated, fleet, report, result,
                  execution_history, available_tools, gui >>

(* the end of ToolsNode.execute: lines 286-318 *)
ExecFinish ==
  /\ pc = "executing"
  /\ frame[1].i > Len(validated[1].normalized_steps)
  /\ report' = << ExecutionReport(validated[1].plan_id, frame[1]) >>
  /\ frame' = << >>
  /\ pc' = "executed"
  /\ UNCHANGED << runs, heap, plan, validated, fleet, calls, exc, result,
                  execution_history, available_tools, gui >>

(* coordinator.py lines 176-200 *)
CoordAggregate ==
  /\ pc = "executed"
  /\ result' = << aggregate_results(plan[1], validated[1], report[1], heap) >>
  /\ execution_history' = Append(execution_history, HistoryEntry(plan[1], report[1]))
  /\ pc' = "done"
  /\ UNCHANGED << runs, heap, plan, validated, fleet, frame, calls, report, exc,
                  available_tools, gui >>

(* coordinator.py lines 202-216 *)
CoordCatch ==
  /\ pc = "raised"
  /\ result' = ExceptionResult(exc[1])
  /\ pc' = "done"
  /\ UNCHANGED << runs, heap, plan, validated, fleet, frame, calls, report, exc,
                  execution_history, available_tools, gui >>

Init ==
  /\ pc = "idle"
  /\ runs = 0
  /\ heap = << >>
  /\ plan = << >>
  /\ validated = << >>
  /\ fleet = "none"
  /\ frame = << >>
  /\ calls = << >>
  /\ report = << >>
  /\ exc = << >>
  /\ result = << >>
  /\ execution_history = << >>
  /\ available_tools = available_tools_keys
  /\ agent = FALSE
  /\ agent_lock = FALSE
  /\ threads = << >>

Next ==
  \/ CoordPlan
  \/ CoordNoPlan
  \/ CoordValidate
  \/ CoordInvalid
  \/ CoordExecute
  \/ ExecStep
  \/ ExecFinish
  \/ CoordAggregate
  \/ CoordCatch

(* calls of MultiAgentCoordinator.execute, one after the other *)
Spec == Init /\ [][Next]_vars

----------------------------------------------------------------------------
(* A caller of ToolsNode itself: validate_and_fix, then execute on what it *)
(* returned, whatever is_valid says.                                       *)

NodeCall ==
  /\ pc = "idle"
  /\ \E steps \in StepLists(NodeSteps) :
       NewPlan(Plan(1, [k \in 1..Len(steps) |-> k], "draft"), steps)
  /\ report' = << >>
  /\ UNCHANGED << runs, execution_history, available_tools, gui >>

NodeNext ==
  \/ NodeCall
  \/ ValidateCall
  \/ ExecBegin
  \/ ExecStep
  \/ ExecFinish

NodeSpec == Init /\ [][NodeNext]_vars

----------------------------------------------------------------------------
(* A caller of ToolsNode.validate_and_fix alone, on plans whose steps have *)
(* arguments of every kind the validator looks at.                         *)

ValidatorCases ==
  { << "take_off", Args(StrV("$drone_id"), NumV(-5), Absent, Absent, Absent, Absent) >>,
    << "take_off", Args(StrV("drone-001"), NumV(1000), Absent, Absent, Absent, Absent) >>,
    << "take_off", Args(StrV("drone-001"), NumV(20), Absent, Absent, Absent, NumV(60)) >>,
    << "move_to", Args(Absent, Absent, StrV("12"), StrV("abc"), NumV(20000), Absent) >>,
    << "move_to", Args(Absent, Absent, StrV("20000"), NumV(-20000), NumV(12), NumV(0)) >>,
    << "move_to", Args(StrV("$drone_id"), NumV(500), NumV(12), NumV(12), NumV(12), NumV(20)) >>,
    << "move_to", Args(Absent, NaN, NaN, Absent, Absent, NaN) >>,
    << "take", Args(Absent, NumV(-5), Absent, Absent, Absent, Absent) >>,
    << "takeoff", EmptyArgs >>,
    << "self_destruct", Args(Absent, NumV(1000), Absent, Absent, Absent, NumV(60)) >>,
    << "LAND", Args(Absent, NumV(501), Absent, Absent, Absent, Absent) >>,
    << "get_wx", Args(Absent, NumV(-1), Absent, Absent, Absent, Absent) >>,
    << "#null", EmptyArgs >>,
    << "list_drones", EmptyArgs >>,
    << "change_altitude", Args(Absent, StrV("abc"), Absent, Absent, Absent, Absent) >>,
    << "change_altitude", Args(Absent, NumV(0), Absent, Absent, Absent, Absent) >>,
    << "hover", Args(Absent, Absent, StrV("20000"), Absent, Absent, Absent) >> }

ValidatorSteps ==
  { PlanStep(id, case[1], case[2], << >>) : id \in StepIds, case \in ValidatorCases }

ValidatorCall ==
  /\ pc = "idle"
  /\ \E steps \in StepLists(ValidatorSteps) :
       NewPlan(Plan(1, [k \in 1..Len(steps) |-> k], "draft"), steps)
  /\ UNCHANGED << runs, report, execution_history, available_tools, gui >>

ValidatorNext ==
  \/ ValidatorCall
  \/ ValidateCall

ValidatorSpec == Init /\ [][ValidatorNext]_vars

----------------------------------------------------------------------------
(* A caller of ToolsNode with plans whose step_ids are unique, as a Plan   *)
(* requires: the k-th step has the k-th step_id, and it may depend on any  *)
(* step of the plan, itself included.                                      *)

StepIdOf(k) ==
  CASE k = 1 -> "s1" [] k = 2 -> "s2" [] k = 3 -> "s3" [] k = 4 -> "s4"
    [] OTHER -> "s5"

ChainSteps(k) ==
  { PlanStep(StepIdOf(k), tool, EmptyArgs, deps) :
      tool \in {"list_drones", "self_destruct"},
      deps \in { << >> } \cup { << StepIdOf(j) >> : j \in 1..ChainLen } }

RECURSIVE ChainPlansOf(_)
ChainPlansOf(n) ==
  IF n = 0 THEN { << >> }
  ELSE { Append(steps, step) : steps \in ChainPlansOf(n - 1), step \in ChainSteps(n) }

ChainPlans == UNION { ChainPlansOf(n) : n \in 0..ChainLen }

ChainCall ==
  /\ pc = "idle"
  /\ \E steps \in ChainPlans :
       NewPlan(Plan(1, [k \in 1..Len(steps) |-> k], "draft"), steps)
  /\ report' = << >>
  /\ UNCHANGED << runs, execution_history, available_tools, gui >>

ChainNext ==
  \/ ChainCall
  \/ ValidateCall
  \/ ExecBegin
  \/ ExecStep
  \/ ExecFinish

ChainSpec == Init /\ [][ChainNext]_vars

----------------------------------------------------------------------------
(* A caller of ToolsNode.validate_and_fix alone, on plans with unique      *)
(* step_ids whose steps have drone_id, coordinate and speed arguments of   *)
(* every kind the validator tells apart.                                   *)

ArgumentCases ==
  { << "move_to", Args(Absent, Absent, StrV("12"), StrV("abc"), NumV(20000), NumV(60)) >>,
    << "move_to", Args(Absent, Absent, StrV("20000"), NumV(-20000), NumV(10000), NumV(0)) >>,
    << "move_towards", Args(Absent, Absent, StrV("-20000"), NumV(-10000), NumV(12), NumV(50)) >>,
    << "move_to", Args(Absent, Absent, StrV("nan"), NaN, NumV(10001), NaN) >>,
    << "move_towards", Args(StrV("$drone_id"), Absent, NumV(12), NumV(12), NumV(12), NumV(20)) >>,
    << "hover", Args(Absent, Absent, StrV("20000"), NumV(20000), Absent, NumV(-3)) >>,
    << "take_off", Args(StrV("$drone_id"), NumV(-5), Absent, Absent, Absent, StrV("abc")) >>,
    << "take_off", Args(StrV("drone-001"), NumV(20), Absent, Absent, Absent, NumV(1)) >>,
    << "self_destruct", Args(StrV("$drone_id"), Absent, StrV("12"), Absent, Absent, NumV(60)) >>,
    << "take", Args(StrV("$drone_id"), Absent, Absent, Absent, Absent, NumV(60)) >>,
    << "list_drones", EmptyArgs >> }

ArgumentPlans ==
  UNION { { [k \in 1..n |-> PlanStep(StepIdOf(k), cases[k][1], cases[k][2], << >>)] :
              cases \in [1..n -> ArgumentCases] } : n \in 0..MaxSteps }

ArgumentCall ==
  /\ pc = "idle"
  /\ \E steps \in ArgumentPlans :
       NewPlan(Plan(1, [k \in 1..Len(steps) |-> k], "draft"), steps)
  /\ UNCHANGED << runs, report, execution_history, available_tools, gui >>

ArgumentNext ==
  \/ ArgumentCall
  \/ ValidateCall

ArgumentSpec == Init /\ [][ArgumentNext]_vars

----------------------------------------------------------------------------
(* A caller that validates a plan and, when it is valid, validates again   *)
(* the Plan made of the normalized steps, against the same fleet.          *)

RevalidateSteps ==
  { PlanStep("s1", case[1], case[2], << >>) : case \in ValidatorCases }

RevalidateCall ==
  /\ pc = "idle"
  /\ \E steps \in StepLists(RevalidateSteps) :
       NewPlan(Plan(1, [k \in 1..Len(steps) |-> k], "draft"), steps)
  /\ UNCHANGED << runs, report, execution_history, available_tools, gui >>

(* Plan(steps=validated_plan.normalized_steps) *)
Rewrap ==
  /\ pc = "validated"
  /\ plan[1].plan_id = 1
  /\ validated[1].is_valid
  /\ plan' = << Plan(2, validated[1].normalized_steps, "draft") >>
  /\ pc' = "rewrapped"
  /\ UNCHANGED << runs, heap, validated, fleet, frame, calls, report, exc, result,
                  execution_history, available_tools, gui >>

(* validate_and_fix on the new Plan; list_drones answers as it did *)
Revalidate ==
  /\ pc = "rewrapped"
  /\ ValidateReturns(validate_and_fix(plan[1], heap, fleet))
  /\ UNCHANGED << runs, plan, fleet, frame, calls, report, result,
                  execution_history, available_tools, gui >>

RevalidateNext ==
  \/ RevalidateCall
  \/ ValidateCall
  \/ Rewrap
  \/ Revalidate

RevalidateSpec == Init /\ [][RevalidateNext]_vars

----------------------------------------------------------------------------
(* A caller that uses one ToolsNode for several plans, one after the       *)
(* other: validate_and_fix and execute on the first, then on the next.     *)
(* The caller still holds the report of the call before.                   *)

(* steps whose dependencies may name a step of another plan *)
SeriesSteps ==
  { PlanStep(id, "list_drones", EmptyArgs, deps) :
      id \in StepIds, deps \in { << >>, <<"s1">>, <<"s2">> } }

SeriesCall ==
  /\ pc \in {"idle", "executed"}
  /\ runs < MaxRuns
  /\ \E steps \in StepLists(SeriesSteps) :
       NewPlan(Plan(runs + 1, [k \in 1..Len(steps) |-> k], "draft"), steps)
  /\ runs' = runs + 1
  /\ UNCHANGED << report, execution_history, available_tools, gui >>

SeriesNext ==
  \/ SeriesCall
  \/ ValidateCall
  \/ ExecBegin
  \/ ExecStep
  \/ ExecFinish

SeriesSpec == Init /\ [][SeriesNext]_vars

----------------------------------------------------------------------------
(* Properties of ToolsNode.execute, under NodeSpec *)

(* the loop of line 182 is at a step *)
AtStep ==
  /\ pc = "executing"
  /\ frame # << >>
  /\ frame[1].i <= Len(validated[1].normalized_steps)

(* the step the loop is at *)
CurrentStep == heap[validated[1].normalized_steps[frame[1].i]]

(* the error text names the dependency dep *)
Names(error, dep) ==
  /\ error.kind = "deps"
  /\ \/ InSeq(dep, error.missing)
     \/ InSeq(dep, error.blocked)
     \/ InSeq(dep, error.pending)

(* the iteration appended one failed ExecutionResult for step that names   *)
(* dep, and invoked no tool                                                *)
RefusedFor(step, dep) ==
  /\ frame' # << >>
  /\ calls' = Append(calls, "none")
  /\ Len(frame'[1].execution_results) = Len(frame[1].execution_results) + 1
  /\ frame'[1].execution_results[Len(frame'[1].execution_results)].step_id = step.step_id
  /\ ~frame'[1].execution_results[Len(frame'[1].execution_results)].success
  /\ Names(frame'[1].execution_results[Len(frame'[1].execution_results)].error, dep)
  /\ step.step_id \in frame'[1].skipped_step_ids
  /\ Len(frame'[1].errors) = Len(frame[1].errors) + 1

(* C1 as stated: for every step S of normalized_steps, the steps the       *)
(* validator marked skipped included, and every dependency D of S that is  *)
(* not in completed when S is reached, S's tool is not invoked and S gets  *)
(* a failed ExecutionResult whose error names D.                           *)
C1_EveryStepRefused ==
  [][ AtStep =>
        \A k \in 1..Len(CurrentStep.dependencies) :
           CurrentStep.dependencies[k] \notin frame[1].completed_step_ids
             => RefusedFor(CurrentStep, CurrentStep.dependencies[k]) ]_vars

(* C1, amended: for every step S whose status is not skipped and every     *)
(* dependency D of S that is not in completed when S is reached, S's tool  *)
(* is not invoked and S gets a failed ExecutionResult whose error names D; *)
(* a step the validator marked skipped is not invoked either, and gets no  *)
(* ExecutionResult; a tool is invoked for S only when every dependency of  *)
(* S is in completed.                                                      *)
C1_DependencyOrdering ==
  [][ AtStep =>
        /\ CurrentStep.status # "skipped" =>
             \A k \in 1..Len(CurrentStep.dependencies) :
                CurrentStep.dependencies[k] \notin frame[1].completed_step_ids
                  => RefusedFor(CurrentStep, CurrentStep.dependencies[k])
        /\ CurrentStep.status = "skipped" =>
             /\ calls' = Append(calls, "none")
             /\ frame'[1].execution_results = frame[1].execution_results
             /\ frame'[1].errors = frame[1].errors
        /\ calls' # Append(calls, "none") =>
             \A k \in 1..Len(CurrentStep.dependencies) :
                CurrentStep.dependencies[k] \in frame[1].completed_step_ids ]_vars

(* a step that the validator did not skip was refused for a dependency     *)
(* that comes later in the plan                                            *)
C1_Witness ==
  /\ frame # << >>
  /\ \E k \in 1..Len(frame[1].execution_results) :
       /\ ~frame[1].execution_results[k].success
       /\ frame[1].execution_results[k].error.kind = "deps"
       /\ frame[1].execution_results[k].error.pending # << >>
  /\ calls = << "none" >>

(* C3 as stated: when the API call behind a tool fails, the step's         *)
(* ExecutionResult has success = false, its step_id is added to failed and *)
(* an entry is added to errors; it is not recorded as completed.           *)
C3_ApiFailureFails ==
  [][ (AtStep /\ calls' = Append(calls, "api_error")) =>
        /\ ~frame'[1].execution_results[Len(frame'[1].execution_results)].success
        /\ CurrentStep.step_id \in frame'[1].failed_step_ids
        /\ Len(frame'[1].errors) = Len(frame[1].errors) + 1
        /\ frame'[1].completed_step_ids = frame[1].completed_step_ids ]_vars

(* C6: final_status is completed if every ExecutionResult succeeded,       *)
(* failed if none succeeded, partial otherwise.                            *)
C6_FinalStatus ==
  report # << >> =>
    report[1].final_status =
      IF \A k \in 1..Len(report[1].execution_results) :
           report[1].execution_results[k].success
      THEN "completed"
      ELSE IF \A k \in 1..Len(report[1].execution_results) :
                ~report[1].execution_results[k].success
           THEN "failed"
           ELSE "partial"

(* a report with one result that succeeded and one that did not *)
C6_Witness ==
  /\ report # << >>
  /\ report[1].final_status = "partial"
  /\ \E j, k \in 1..Len(report[1].execution_results) :
       /\ report[1].execution_results[j].success
       /\ ~report[1].execution_results[k].success

----------------------------------------------------------------------------
(* The worker threads of MultiAgentGUI, main_2_agents.py.  The GUI thread  *)
(* starts a thread per request; each worker runs its body inside           *)
(* "with self.agent_lock".  A thread is at "start" before the with         *)
(* statement, at "locked" once it holds the lock, at "call" while the      *)
(* call it makes under the lock is running (the MultiAgentCoordinator      *)
(* constructor, agent.execute, agent.get_session_summary), at "display"    *)
(* after the with statement and at "done" when its target has returned.    *)

pipeline == << pc, runs, heap, plan, validated, fleet, frame, calls, report,
               exc, result, execution_history, available_tools >>

Thread(target) == [ target |-> target, pc |-> "start" ]

(* threading.Thread(...).start(), lines 428-433, 536-541, 590-591 *)
StartThread(target) ==
  /\ threads' = Append(threads, Thread(target))
  /\ UNCHANGED << agent, agent_lock, pipeline >>

(* lines 427-433 *)
initialize_agents ==
  /\ Len(threads) < MaxThreads
  /\ StartThread("_initialize_agents_worker")

(* lines 529-541 *)
refresh_session_summary ==
  /\ Len(threads) < MaxThreads
  /\ agent
  /\ StartThread("_fetch_session_summary")

(* lines 576-591; handle_command_return (lines 568-574) calls it whatever  *)
(* the state of send_button                                                *)
send_command ==
  /\ Len(threads) < MaxThreads
  /\ agent
  /\ StartThread("_execute_command")

(* threading.Lock.acquire returns when the lock is unlocked: line 122 *)
acquire_unlocked(lock) == TRUE

acquire(lock) == ~lock

(* __enter__ of "with self.agent_lock": lines 437, 545, 595 *)
Enter ==
  \E t \in 1..Len(threads) :
    /\ threads[t].pc = "start"
    /\ acquire(agent_lock)
    /\ agent_lock' = TRUE
    /\ threads' = [threads EXCEPT ![t].pc = "locked"]
    /\ UNCHANGED << agent, pipeline >>

(* __exit__ of "with self.agent_lock", on return, on an exception and at   *)
(* the end of the block                                                    *)
Leave(t, position) ==
  /\ agent_lock' = FALSE
  /\ threads' = [threads EXCEPT ![t].pc = position]

(* lines 438-460: no provider configuration, no LLM parameters or an       *)
(* exception of float() leave the with statement; otherwise the            *)
(* constructors of lines 462-475 are called                                *)
initialize_agents_worker_begin ==
  \E t \in 1..Len(threads) :
    /\ threads[t].target = "_initialize_agents_worker"
    /\ threads[t].pc = "locked"
    /\ \/ Leave(t, "done")
       \/ /\ threads' = [threads EXCEPT ![t].pc = "call"]
          /\ UNCHANGED agent_lock
    /\ UNCHANGED << agent, pipeline >>

(* lines 476-490: the constructor raised, or self.agent is assigned *)
initialize_agents_worker_end ==
  \E t \in 1..Len(threads) :
    /\ threads[t].target = "_initialize_agents_worker"
    /\ threads[t].pc = "call"
    /\ \/ agent' = agent
       \/ agent' = TRUE
    /\ Leave(t, "done")
    /\ UNCHANGED pipeline

(* lines 546-550 *)
fetch_session_summary_begin ==
  \E t \in 1..Len(threads) :
    /\ threads[t].target = "_fetch_session_summary"
    /\ threads[t].pc = "locked"
    /\ IF ~agent
       THEN Leave(t, "done")
       ELSE /\ threads' = [threads EXCEPT ![t].pc = "call"]
            /\ UNCHANGED agent_lock
    /\ UNCHANGED << agent, pipeline >>

(* lines 551-563: get_session_summary raised or returned *)
fetch_session_summary_end ==
  \E t \in 1..Len(threads) :
    /\ threads[t].target = "_fetch_session_summary"
    /\ threads[t].pc = "call"
    /\ Leave(t, "done")
    /\ UNCHANGED << agent, pipeline >>

(* lines 596-600 *)
execute_command_begin ==
  \E t \in 1..Len(threads) :
    /\ threads[t].target = "_execute_command"
    /\ threads[t].pc = "locked"
    /\ IF ~agent
       THEN Leave(t, "done")
       ELSE /\ threads' = [threads EXCEPT ![t].pc = "call"]
            /\ UNCHANGED agent_lock
    /\ UNCHANGED << agent, pipeline >>

(* lines 600-605: agent.execute raised (the handler returns) or returned   *)
(* (the with statement ends and the results are displayed)                 *)
execute_command_end ==
  \E t \in 1..Len(threads) :
    /\ threads[t].target = "_execute_command"
    /\ threads[t].pc = "call"
    /\ \/ Leave(t, "done")
       \/ Leave(t, "display")
    /\ UNCHANGED << agent, pipeline >>

(* lines 607-612 *)
execute_command_display ==
  \E t \in 1..Len(threads) :
    /\ threads[t].target = "_execute_command"
    /\ threads[t].pc = "display"
    /\ threads' = [threads EXCEPT ![t].pc = "done"]
    /\ UNCHANGED << agent, agent_lock, pipeline >>

GuiNext ==
  \/ initialize_agents
  \/ refresh_session_summary
  \/ send_command
  \/ Enter
  \/ initialize_agents_worker_begin
  \/ initialize_agents_worker_end
  \/ fetch_session_summary_begin
  \/ fetch_session_summary_end
  \/ execute_command_begin
  \/ execute_command_end
  \/ execute_command_display

(* the GUI thread and the worker threads it starts *)
GuiSpec == Init /\ [][GuiNext]_vars

----------------------------------------------------------------------------
(* Properties of MultiAgentGUI, under GuiSpec *)

(* the thread is inside "with self.agent_lock" *)
Inside(t) == threads[t].pc \in {"locked", "call"}

(* the thread is in agent.execute *)
InExecute(t) ==
  /\ threads[t].target = "_execute_command"
  /\ threads[t].pc = "call"

(* C20: at most one worker is inside "with agent_lock" at any time, so two *)
(* agent.execute calls never overlap, and none overlaps agent              *)
(* (re)initialization or a session summary; only a worker inside the with  *)
(* statement makes such a call; the lock is locked exactly while a worker  *)
(* is inside, so every way out of the with statement has released it.      *)
C20_OneCallInFlight ==
  /\ \A t, u \in 1..Len(threads) : (Inside(t) /\ Inside(u)) => t = u
  /\ \A t, u \in 1..Len(threads) : (InExecute(t) /\ InExecute(u)) => t = u
  /\ \A t \in 1..Len(threads) : threads[t].pc = "call" => Inside(t) /\ agent_lock
  /\ agent_lock <=> \E t \in 1..Len(threads) : Inside(t)

(* one command thread is in agent.execute while a second command thread    *)
(* and a thread that initializes the agents again wait for the lock, after *)
(* the first initialization has left the with statement                    *)
C20_Witness ==
  /\ Len(threads) = 4
  /\ threads[1] = [ target |-> "_initialize_agents_worker", pc |-> "done" ]
  /\ \E t, u, w \in 2..4 :
       /\ InExecute(t)
       /\ threads[u] = Thread("_execute_command")
       /\ threads[w] = Thread("_initialize_agents_worker")
  /\ agent_lock

----------------------------------------------------------------------------
(* Properties of ToolsNode.execute on plans with unique step_ids, under    *)
(* ChainSpec                                                               *)

(* the steps execute was given, in their order *)
Steps == StepsOf(validated[1], heap)

IdsOf(seq) == [k \in 1..Len(seq) |-> seq[k].step_id]

(* the step at a depends on the step at b, directly or through at most n   *)
(* steps of the plan                                                       *)
RECURSIVE DependsOn(_, _, _, _)
DependsOn(steps, a, b, n) ==
  /\ n > 0
  /\ \/ InSeq(steps[b].step_id, steps[a].dependencies)
     \/ \E m \in 1..Len(steps) :
          /\ InSeq(steps[m].step_id, steps[a].dependencies)
          /\ DependsOn(steps, m, b, n - 1)

(* the step at k was refused: no tool was invoked for it, it has a failed  *)
(* ExecutionResult for its dependencies and an errors entry, and its       *)
(* step_id is in skipped                                                   *)
Refused(k) ==
  /\ calls[k] = "none"
  /\ \E r \in 1..Len(frame[1].execution_results) :
       /\ frame[1].execution_results[r].step_id = Steps[k].step_id
       /\ ~frame[1].execution_results[r].success
       /\ frame[1].execution_results[r].error.kind = "deps"
  /\ \E e \in 1..Len(frame[1].errors) :
       frame[1].errors[e].step_id = Steps[k].step_id
  /\ Steps[k].step_id \in frame[1].skipped_step_ids

(* the step at j, processed before the step at k, failed or was skipped,   *)
(* and the step at k depends on it                                         *)
StoppedBy(k, j) ==
  /\ j < k
  /\ Steps[j].step_id \in frame[1].failed_step_ids \cup frame[1].skipped_step_ids
  /\ DependsOn(Steps, k, j, Len(Steps))

(* C16 as stated: once a step fails or is skipped, every later step that   *)
(* depends on it, directly or through a chain, is never invoked and gets a *)
(* failed ExecutionResult and an errors entry.                             *)
C16_EveryDependentRefused ==
  frame # << >> =>
    \A k \in 1..(frame[1].i - 1) :
       (\E j \in 1..Len(Steps) : StoppedBy(k, j)) => Refused(k)

(* C16, amended: once a step fails or is skipped, every later step that    *)
(* depends on it, directly or through a chain, is never invoked; if the    *)
(* validator did not mark it skipped it gets a failed ExecutionResult and  *)
(* an errors entry and its step_id is added to skipped; if the validator   *)
(* marked it skipped it gets no ExecutionResult.                           *)
C16_BlockingTransitive ==
  frame # << >> =>
    \A k \in 1..(frame[1].i - 1) :
       (\E j \in 1..Len(Steps) : StoppedBy(k, j)) =>
          /\ calls[k] = "none"
          /\ Steps[k].status # "skipped" => Refused(k)
          /\ Steps[k].status = "skipped" =>
               ~InSeq(Steps[k].step_id, IdsOf(frame[1].execution_results))

(* the tool of s1 raised, s2 was refused for s1, and s3 was refused for s2 *)
C16_Witness ==
  /\ frame # << >>
  /\ calls = << "raise", "none", "none" >>
  /\ Len(frame[1].execution_results) = 3
  /\ frame[1].execution_results[2].error.blocked = << "s1" >>
  /\ frame[1].execution_results[3].error.blocked = << "s2" >>
  /\ frame[1].skipped_step_ids = {"s2", "s3"}

(* the steps among the first n that the validator did not mark skipped *)
Attempted(n) ==
  SelectSeq(SubSeq(Steps, 1, n), LAMBDA step : step.status # "skipped")

(* C17: execute takes the steps in the order of normalized_steps, one per  *)
(* iteration; execution_results has one entry for each step whose status   *)
(* is not skipped, in that order, and none for a step the validator marked *)
(* skipped, whose step_id goes to skipped with no tool looked up.          *)
C17_OneResultPerAttemptedStep ==
  /\ [](frame # << >> =>
          /\ IdsOf(frame[1].execution_results) = IdsOf(Attempted(frame[1].i - 1))
          /\ Len(calls) = frame[1].i - 1
          /\ \A k \in 1..(frame[1].i - 1) :
               Steps[k].status = "skipped" =>
                 /\ calls[k] = "none"
                 /\ Steps[k].step_id \in frame[1].skipped_step_ids)
  /\ [](report # << >> =>
          IdsOf(report[1].execution_results) = IdsOf(Attempted(Len(Steps))))
  /\ [][AtStep => (frame' # << >> /\ frame'[1].i = frame[1].i + 1)]_vars

(* a report with the results of s1 and s3, for a plan whose second step    *)
(* the validator marked skipped                                            *)
C17_Witness ==
  /\ report # << >>
  /\ Len(Steps) = 3
  /\ Steps[2].status = "skipped"
  /\ IdsOf(report[1].execution_results) = << "s1", "s3" >>

(* C18: when the tool of a step raises, the step gets a failed             *)
(* ExecutionResult with the exception, its step_id goes to failed and an   *)
(* entry to errors, and the loop goes on; a step that is not skipped and   *)
(* whose dependencies are all in completed is invoked when it is reached;  *)
(* every step is processed once.                                           *)
C18_RaiseNotFatal ==
  /\ [][ (AtStep /\ calls' = Append(calls, "raise")) =>
           /\ pc' = "executing"
           /\ frame' # << >>
           /\ frame'[1].i = frame[1].i + 1
           /\ frame'[1].execution_results =
                Append(frame[1].execution_results,
                       [ step_id |-> CurrentStep.step_id, success |-> FALSE,
                         output |-> "none",
                         error |-> [ kind |-> "exception", missing |-> << >>,
                                     blocked |-> << >>, pending |-> << >> ] ])
           /\ frame'[1].failed_step_ids =
                frame[1].failed_step_ids \cup {CurrentStep.step_id}
           /\ CurrentStep.step_id \notin frame'[1].completed_step_ids
           /\ Len(frame'[1].errors) = Len(frame[1].errors) + 1
           /\ frame'[1].errors[Len(frame'[1].errors)].step_id = CurrentStep.step_id ]_vars
  /\ [][ ( /\ AtStep
           /\ CurrentStep.status # "skipped"
           /\ \A d \in 1..Len(CurrentStep.dependencies) :
                CurrentStep.dependencies[d] \in frame[1].completed_step_ids ) =>
           \E outcome \in {"ok", "api_error", "raise"} :
              calls' = Append(calls, outcome) ]_vars
  /\ [](report # << >> => Len(calls) = Len(Steps))

(* the tool of s1 raised; s2, which depends on s1, was refused; s3, which  *)
(* depends on nothing, was invoked after that, and execute returned        *)
C18_Witness ==
  /\ report # << >>
  /\ calls = << "raise", "none", "ok" >>
  /\ report[1].final_status = "partial"
  /\ Len(report[1].errors) = 2

(* the step_ids of the steps the loop has processed *)
Processed == { Steps[k].step_id : k \in 1..(frame[1].i - 1) }

(* C26: during execute, completed, failed and skipped are pairwise         *)
(* disjoint sets of step_ids of the plan, none of them ever loses a        *)
(* step_id, together they hold the step_ids of the steps processed so far, *)
(* one tool call at most was made per processed step, and at the end of    *)
(* the loop every step_id of the plan is in exactly one of them.           *)
C26_TerminalSetsDisjoint ==
  /\ [](frame # << >> =>
          /\ frame[1].completed_step_ids \cap frame[1].failed_step_ids = {}
          /\ frame[1].completed_step_ids \cap frame[1].skipped_step_ids = {}
          /\ frame[1].failed_step_ids \cap frame[1].skipped_step_ids = {}
          /\ frame[1].all_step_ids = { Steps[k].step_id : k \in 1..Len(Steps) }
          /\ ( frame[1].completed_step_ids \cup frame[1].failed_step_ids
                 \cup frame[1].skipped_step_ids ) = Processed
          /\ Processed \subseteq frame[1].all_step_ids
          /\ Len(calls) = frame[1].i - 1
          /\ \A k \in 1..Len(calls) :
               calls[k] # "none" =>
                 Steps[k].step_id \in frame[1].completed_step_ids \cup frame[1].failed_step_ids
          /\ frame[1].i > Len(Steps) => Processed = frame[1].all_step_ids)
  /\ [][ (frame # << >> /\ frame' # << >>) =>
           /\ frame[1].completed_step_ids \subseteq frame'[1].completed_step_ids
           /\ frame[1].failed_step_ids \subseteq frame'[1].failed_step_ids
           /\ frame[1].skipped_step_ids \subseteq frame'[1].skipped_step_ids ]_vars

(* the end of the loop for a plan of three steps: s1 completed, s2 failed  *)
(* (its tool raised), s3 skipped (refused for its dependency on s2)        *)
C26_Witness ==
  /\ frame # << >>
  /\ frame[1].i = 4
  /\ frame[1].completed_step_ids = {"s1"}
  /\ frame[1].failed_step_ids = {"s2"}
  /\ frame[1].skipped_step_ids = {"s3"}
  /\ calls = << "ok", "raise", "none" >>

----------------------------------------------------------------------------
(* Properties of ToolsNode.validate_and_fix, under ValidatorSpec *)

(* C2 as stated: is_valid is true if and only if no step was left with an  *)
(* unresolved missing tool; a step whose unknown tool_name was replaced by *)
(* a suggested tool does not make is_valid false.                          *)
C2_ValidIffResolved ==
  validated # << >> =>
    ( validated[1].is_valid <=>
        \A k \in 1..Len(validated[1].normalized_steps) :
           heap[validated[1].normalized_steps[k]].status # "skipped" )

(* C10: validate_and_fix leaves the steps of the Plan it is given as they  *)
(* were: same tool_name, args, dependencies and status; the rewrites are   *)
(* on the copies in normalized_steps.                                      *)
C10_PlanNotMutated ==
  [][ pc = "planned" =>
        /\ plan' = plan
        /\ Len(heap') >= Len(plan[1].steps)
        /\ \A k \in 1..Len(plan[1].steps) :
             heap'[plan[1].steps[k]] = heap[plan[1].steps[k]]
        /\ validated' # << >> =>
             \A k \in 1..Len(validated'[1].normalized_steps) :
                ~InSeq(validated'[1].normalized_steps[k], plan[1].steps) ]_vars

(* the validator returned a copy whose tool_name and args were rewritten,  *)
(* and the step of the plan still has the tool_name and args it came with  *)
C10_Witness ==
  /\ pc = "validated"
  /\ validated[1].fixes # << >>
  /\ \E k \in 1..Len(plan[1].steps) :
       /\ heap[validated[1].normalized_steps[k]].args # heap[plan[1].steps[k]].args
       /\ heap[validated[1].normalized_steps[k]].tool_name # heap[plan[1].steps[k]].tool_name
       /\ heap[validated[1].normalized_steps[k]].status = "validated"
       /\ heap[plan[1].steps[k]].status = "pending"
       /\ heap[plan[1].steps[k]].tool_name = "take"

(* the k-th step of the plan given to validate_and_fix, and its copy in    *)
(* normalized_steps                                                        *)
Original(k) == heap[plan[1].steps[k]]

Normalized(k) == heap[validated[1].normalized_steps[k]]

(* the fixes and the warnings that carry the step_id id *)
FixesOf(id) == SelectSeq(validated[1].fixes, LAMBDA f : f.step_id = id)

WarningsOf(id) ==
  SelectSeq(validated[1].validation_warnings, LAMBDA w : w.step_id = id)

(* no other step of the plan has the step_id of the k-th *)
UniqueId(k) ==
  \A j \in 1..Len(plan[1].steps) :
     Original(j).step_id = Original(k).step_id => j = k

(* C11: normalized_steps has the length of plan.steps and the same         *)
(* step_ids in the same order; every normalized step is validated or       *)
(* skipped; every skipped step has a tool_not_found fix and a warning with *)
(* its step_id.                                                            *)
C11_NoStepDropped ==
  validated # << >> =>
    /\ Len(validated[1].normalized_steps) = Len(plan[1].steps)
    /\ \A k \in 1..Len(plan[1].steps) :
         /\ k <= Len(validated[1].normalized_steps)
         /\ Normalized(k).step_id = Original(k).step_id
         /\ Normalized(k).status \in {"validated", "skipped"}
         /\ Normalized(k).status = "skipped" =>
              /\ \E j \in 1..Len(validated[1].fixes) :
                   /\ validated[1].fixes[j].fix_type = "tool_not_found"
                   /\ validated[1].fixes[j].step_id = Original(k).step_id
              /\ \E j \in 1..Len(validated[1].validation_warnings) :
                   /\ validated[1].validation_warnings[j].step_id = Original(k).step_id
                   /\ validated[1].validation_warnings[j].kind = "skipping"

(* a plan of two steps came back with the first skipped and the second     *)
(* validated                                                               *)
C11_Witness ==
  /\ validated # << >>
  /\ Len(plan[1].steps) = 2
  /\ Len(validated[1].normalized_steps) = 2
  /\ Normalized(1).status = "skipped"
  /\ Normalized(2).status = "validated"
  /\ Original(1).step_id # Original(2).step_id

(* C12 as stated: a step whose tool_name is "takeoff" is rewritten to      *)
(* take_off and ends with status validated.                                *)
C12_TakeoffResolved ==
  validated # << >> =>
    \A k \in 1..Len(plan[1].steps) :
       Original(k).tool_name = "takeoff" =>
         /\ Normalized(k).tool_name = "take_off"
         /\ Normalized(k).status = "validated"

(* C13: a step whose tool_name is not in the catalog and has no suggestion *)
(* ends skipped with the tool_name and args it came with, and is_valid is  *)
(* false; when its step_id is unique in the plan, it has one warning, one  *)
(* tool_not_found fix and no other fix.                                    *)
C13_UnknownToolSkipped ==
  validated # << >> =>
    \A k \in 1..Len(plan[1].steps) :
       ( /\ ~ToolExists(Original(k).tool_name)
         /\ suggest_alternative_tool(Original(k).tool_name) = << >> ) =>
           /\ Normalized(k).status = "skipped"
           /\ Normalized(k).args = Original(k).args
           /\ Normalized(k).tool_name = Original(k).tool_name
           /\ ~validated[1].is_valid
           /\ UniqueId(k) =>
                /\ FixesOf(Original(k).step_id) =
                     << [ step_id |-> Original(k).step_id,
                          fix_type |-> "tool_not_found",
                          original_value |-> StrV(Original(k).tool_name),
                          fixed_value |-> NullV ] >>
                /\ Len(WarningsOf(Original(k).step_id)) = 1

(* self_destruct with an altitude and a speed that the checks would        *)
(* rewrite came back skipped, next to a step that was fixed                *)
C13_Witness ==
  /\ validated # << >>
  /\ Len(plan[1].steps) = 2
  /\ Original(1).tool_name = "self_destruct"
  /\ Original(1).args["speed"] = NumV(60)
  /\ Normalized(1).status = "skipped"
  /\ UniqueId(1)
  /\ Len(validated[1].fixes) > 1

(* the steps that came back validated with a numeric altitude out of range *)
OutOfRange ==
  { k \in 1..Len(plan[1].steps) :
      /\ Normalized(k).status = "validated"
      /\ IsNumber(Original(k).args["altitude"])
      /\ ~IsNaN(Original(k).args["altitude"])
      /\ \/ Original(k).args["altitude"].n < 0
         \/ Original(k).args["altitude"].n > 500 }

(* the three cases of the altitude check, for the validated step k *)
AltitudeCases(k) ==
  /\ ( /\ ~IsNaN(Original(k).args["altitude"])
       /\ Original(k).args["altitude"].n < 0 ) =>
         Normalized(k).args["altitude"] = NumV(5)
  /\ ( /\ ~IsNaN(Original(k).args["altitude"])
       /\ Original(k).args["altitude"].n > 500 ) =>
         Normalized(k).args["altitude"] = NumV(120)
  /\ ( /\ ~IsNaN(Original(k).args["altitude"])
       /\ Original(k).args["altitude"].n >= 0
       /\ Original(k).args["altitude"].n <= 500 ) =>
         Normalized(k).args["altitude"] = Original(k).args["altitude"]

(* one invalid_range fix for each altitude out of range, and no other *)
OneFixEach ==
  Len(SelectSeq(validated[1].fixes, LAMBDA f : f.fix_type = "invalid_range"))
    = Cardinality(OutOfRange)

(* the altitude of the validated step k is a number of 0..500 *)
InRange(k) ==
  /\ ~IsNaN(Normalized(k).args["altitude"])
  /\ Normalized(k).args["altitude"].n >= 0
  /\ Normalized(k).args["altitude"].n <= 500

(* C14 as stated: a < 0 gives 5.0, a > 500 gives 120.0, each with one      *)
(* invalid_range fix, 0 <= a <= 500 is unchanged with no fix; hence every  *)
(* numeric altitude of a validated step lies in [0, 500].                  *)
C14_AltitudeInRange ==
  validated # << >> =>
    /\ OneFixEach
    /\ \A k \in 1..Len(plan[1].steps) :
         ( /\ Normalized(k).status = "validated"
           /\ IsNumber(Original(k).args["altitude"]) ) =>
             /\ AltitudeCases(k)
             /\ IsNumber(Normalized(k).args["altitude"])
             /\ InRange(k)

(* C14, amended: the three cases as stated; an altitude that is NaN is     *)
(* left as it is with no fix; every numeric altitude of a validated step   *)
(* that is not NaN lies in [0, 500].                                       *)
C14_AltitudeClamped ==
  validated # << >> =>
    /\ OneFixEach
    /\ \A k \in 1..Len(plan[1].steps) :
         ( /\ Normalized(k).status = "validated"
           /\ IsNumber(Original(k).args["altitude"]) ) =>
             /\ AltitudeCases(k)
             /\ IsNumber(Normalized(k).args["altitude"])
             /\ IsNaN(Original(k).args["altitude"]) <=>
                  IsNaN(Normalized(k).args["altitude"])
             /\ ~IsNaN(Normalized(k).args["altitude"]) => InRange(k)

(* a plan whose first step had altitude 501 and came back with 120, and    *)
(* whose second step had altitude 500 and kept it                          *)
C14_Witness ==
  /\ validated # << >>
  /\ Len(plan[1].steps) = 2
  /\ Original(1).args["altitude"] = NumV(501)
  /\ Normalized(1).args["altitude"] = NumV(120)
  /\ Original(2).args["altitude"] = NumV(500)
  /\ Normalized(2).args["altitude"] = NumV(500)
  /\ Normalized(2).status = "validated"

----------------------------------------------------------------------------
(* Properties of MultiAgentCoordinator.execute, under Spec *)

(* ToolsNode.execute has been entered during the current call *)
ExecutorEntered ==
  \/ pc \in {"executing", "executed"}
  \/ frame # << >>
  \/ calls # << >>
  \/ report # << >>

(* C4: the executor is entered only after validate_and_fix returned a      *)
(* ValidatedPlan with is_valid = true for the same plan; when is_valid is  *)
(* false the call returns success = false with the plan and the validation *)
(* present and execution = null.                                           *)
C4_ExecuteOnlyValid ==
  /\ ExecutorEntered =>
       /\ validated # << >>
       /\ validated[1].is_valid
       /\ validated[1].plan_id = plan[1].plan_id
  /\ (pc = "done" /\ validated # << >> /\ ~validated[1].is_valid) =>
       /\ ~ExecutorEntered
       /\ Len(result) = 1
       /\ result[1].success = FALSE
       /\ result[1].plan = << [plan[1] EXCEPT !.steps = Deref(heap, plan[1].steps)] >>
       /\ result[1].validation =
            << [validated[1] EXCEPT
                  !.normalized_steps = Deref(heap, validated[1].normalized_steps)] >>
       /\ result[1].execution = << >>

(* a call that stopped at an invalid plan, after a call that executed one *)
C4_Witness ==
  /\ pc = "done"
  /\ validated # << >>
  /\ ~validated[1].is_valid
  /\ result[1].validation # << >>
  /\ execution_history # << >>

(* C7: for a call that reaches execution, success is true if and only if   *)
(* final_status is completed or partial and errors is empty.               *)
C7_SuccessFlag ==
  (pc = "done" /\ report # << >>) =>
    /\ result[1].execution = report
    /\ result[1].success <=>
         /\ report[1].final_status \in {"completed", "partial"}
         /\ report[1].errors = << >>

(* a call whose report is partial: success is false *)
C7_Witness ==
  /\ pc = "done"
  /\ report # << >>
  /\ report[1].final_status = "partial"
  /\ ~result[1].success

(* C8: when the planner returns a plan with no steps, the call ends        *)
(* without validate_and_fix or ToolsNode.execute: success = false, the     *)
(* plan present, validation = null and execution = null; a call that ends  *)
(* after validation has validation present.                                *)
C8_EmptyPlanTerminal ==
  /\ (plan # << >> /\ plan[1].steps = << >>) =>
       /\ pc \in {"planned", "done"}
       /\ validated = << >>
       /\ fleet = "none"
       /\ ~ExecutorEntered
       /\ exc = << >>
  /\ (pc = "done" /\ plan[1].steps = << >>) =>
       /\ Len(result) = 1
       /\ result[1].success = FALSE
       /\ result[1].plan = << plan[1] >>
       /\ result[1].validation = << >>
       /\ result[1].execution = << >>
  /\ (pc = "done" /\ plan[1].steps # << >> /\ exc = << >>) =>
       result[1].validation # << >>

(* the planner failed and returned its fallback plan; the call has ended *)
C8_Witness ==
  /\ pc = "done"
  /\ plan[1].status = "failed"
  /\ plan[1].steps = << >>
  /\ result[1].validation = << >>

(* C9: execute does not let an exception through: when validation or      *)
(* execution raises, the call returns a result with success = false whose  *)
(* output has the text of the exception, and plan, validation and          *)
(* execution null.                                                         *)
C9_ExceptionCaught ==
  /\ [](pc = "done" => Len(result) = 1)
  /\ []((pc = "done" /\ exc # << >>) =>
          /\ result[1].success = FALSE
          /\ result[1].output = [kind |-> "error", text |-> exc[1]]
          /\ result[1].plan = << >>
          /\ result[1].validation = << >>
          /\ result[1].execution = << >>)
  /\ [][pc = "raised" => (pc' = "done" /\ exc' = exc)]_vars

(* ToolsNode.execute raised on a dependency that is not a string, and the  *)
(* call has returned                                                       *)
C9_Witness ==
  /\ pc = "done"
  /\ exc = << "TypeError" >>
  /\ calls # << >>
  /\ result # << >>

----------------------------------------------------------------------------
(* Properties of consecutive calls of ToolsNode.execute, under SeriesSpec *)

(* the loop of ToolsNode.execute run from the frame fr on steps k.. with   *)
(* the tool outcomes given                                                 *)
RECURSIVE Replay(_, _, _, _)
Replay(fr, steps, outcomes, k) ==
  IF k > Len(steps) THEN fr
  ELSE Replay(ProcessStep(fr, steps[k], outcomes[k]), steps, outcomes, k + 1)

(* what execute reports for the validated plan v alone, on a node that has *)
(* executed nothing, with the tool outcomes given                          *)
ReportAlone(v, h, outcomes) ==
  ExecutionReport(v.plan_id,
    Replay([ i |-> 1, execution_results |-> << >>, errors |-> << >>,
             all_step_ids |-> { h[v.normalized_steps[k]].step_id :
                                  k \in 1..Len(v.normalized_steps) },
             completed_step_ids |-> {}, failed_step_ids |-> {},
             skipped_step_ids |-> {} ],
           Deref(h, v.normalized_steps), outcomes, 1))

(* C5: the report of execute(P2) is the one execute gives for P2 alone     *)
(* with the same tool outcomes, whatever was executed before on the node;  *)
(* it has at most one result per step of P2, each for a step_id of P2; and *)
(* execute leaves the fields of ToolsNode unchanged.                       *)
C5_Stateless ==
  /\ [](pc = "executed" =>
          /\ report[1] = ReportAlone(validated[1], heap, calls)
          /\ Len(report[1].execution_results) <= Len(validated[1].normalized_steps)
          /\ \A k \in 1..Len(report[1].execution_results) :
               \E j \in 1..Len(validated[1].normalized_steps) :
                  heap[validated[1].normalized_steps[j]].step_id =
                    report[1].execution_results[k].step_id)
  /\ [][available_tools' = available_tools]_vars

(* the second call is refusing a step for its dependency s1, which is not  *)
(* in its plan, after s1 completed in the first call                       *)
C5_Witness ==
  /\ runs = 2
  /\ pc = "executing"
  /\ report # << >>
  /\ \E k \in 1..Len(report[1].execution_results) :
       /\ report[1].execution_results[k].step_id = "s1"
       /\ report[1].execution_results[k].success
  /\ \E k \in 1..Len(frame[1].execution_results) :
       frame[1].execution_results[k].error.missing = << "s1" >>

(* C19 as stated: the history never grows beyond a fixed bound, whatever   *)
(* the number of calls of execute, and an entry once appended is never     *)
(* removed, reordered or overwritten.  A bound that does not depend on the *)
(* number of calls is below the number of calls of some sequence of calls; *)
(* here the sequences have MaxRuns calls.                                  *)
C19_HistoryBounded ==
  /\ [](Len(execution_history) < MaxRuns)
  /\ [][ \/ execution_history' = execution_history
         \/ \E entry \in {HistoryEntry(plan[1], report[1])} :
              execution_history' = Append(execution_history, entry) ]_vars

(* the results of the report that did not succeed, in their order *)
FailedResults(execution_report) ==
  SelectSeq(execution_report.execution_results, LAMBDA r : ~r.success)

(* C21: in every ExecutionReport the errors entries are, one for one and   *)
(* in order, the results that did not succeed, with their step_ids; so     *)
(* errors is empty if and only if every result succeeded, a partial report *)
(* has errors, and the coordinator's success flag is true exactly when     *)
(* final_status is completed.                                              *)
C21_ErrorsIffFailure ==
  report # << >> =>
    /\ IdsOf(report[1].errors) = IdsOf(FailedResults(report[1]))
    /\ report[1].errors = << >> <=>
         \A k \in 1..Len(report[1].execution_results) :
            report[1].execution_results[k].success
    /\ report[1].final_status = "partial" => report[1].errors # << >>
    /\ pc = "done" =>
         (result[1].success <=> report[1].final_status = "completed")

(* a call that ended with a partial report: one tool returned, one step    *)
(* was refused for a dependency, errors has the entry of the refused step  *)
(* and success is false                                                    *)
C21_Witness ==
  /\ pc = "done"
  /\ report # << >>
  /\ report[1].final_status = "partial"
  /\ Len(report[1].execution_results) = 2
  /\ report[1].execution_results[2].error.kind = "deps"
  /\ IdsOf(report[1].errors) = << "s2" >>
  /\ ~result[1].success

----------------------------------------------------------------------------
(* Properties of the argument checks of validate_and_fix, under            *)
(* ArgumentSpec                                                            *)

Coordinates == {"x", "y", "z"}

(* the steps that came back validated with the tool move_to or             *)
(* move_towards                                                            *)
MoveSteps ==
  { k \in 1..Len(plan[1].steps) :
      /\ Normalized(k).status = "validated"
      /\ Normalized(k).tool_name \in {"move_to", "move_towards"} }

(* the number a coordinate of the plan stands for: itself, or what float   *)
(* makes of the str; no value for a str float rejects and for a value that *)
(* is neither a number nor a str                                           *)
CoordValue(v) ==
  IF IsNumber(v) THEN << v >> ELSE IF IsStr(v) THEN float(v.s) ELSE << >>

TooFar(v) ==
  /\ CoordValue(v) # << >>
  /\ ~IsNaN(CoordValue(v)[1])
  /\ Abs(CoordValue(v)[1].n) > 10000

Uncoercible(v) == IsStr(v) /\ float(v.s) = << >>

StandsForNaN(v) == CoordValue(v) # << >> /\ IsNaN(CoordValue(v)[1])

(* the fixes of the step k of the given type that set a value to 0.0 *)
ZeroFixes(k, fix_type) ==
  SelectSeq(FixesOf(Original(k).step_id),
            LAMBDA f : f.fix_type = fix_type /\ f.fixed_value = NumV(0))

(* what the checks make of the coordinates of the move step k: a value too *)
(* far and a str that is no number become 0.0, with one fix each of the    *)
(* type that says which; any other number, given as a number or as a str,  *)
(* stays or becomes that number                                            *)
CoordinateCases(k) ==
  /\ \A c \in Coordinates :
       /\ TooFar(Original(k).args[c]) => Normalized(k).args[c] = NumV(0)
       /\ Uncoercible(Original(k).args[c]) => Normalized(k).args[c] = NumV(0)
       /\ ( /\ CoordValue(Original(k).args[c]) # << >>
            /\ ~TooFar(Original(k).args[c]) ) =>
              Normalized(k).args[c] = CoordValue(Original(k).args[c])[1]
  /\ Len(ZeroFixes(k, "physically_unreasonable"))
       = Cardinality({ c \in Coordinates : TooFar(Original(k).args[c]) })
  /\ Len(ZeroFixes(k, "invalid_type"))
       = Cardinality({ c \in Coordinates : Uncoercible(Original(k).args[c]) })
  /\ \A f \in 1..Len(ZeroFixes(k, "physically_unreasonable")) :
       \E c \in Coordinates :
          /\ TooFar(Original(k).args[c])
          /\ ZeroFixes(k, "physically_unreasonable")[f].original_value
               = CoordValue(Original(k).args[c])[1]

(* C22 as stated: after validate_and_fix every numeric x, y, z of a        *)
(* move_to or move_towards step has absolute value at most 10000; a larger *)
(* value, given as a number or as a numeric str, became 0.0 with one       *)
(* physically_unreasonable fix; a str that is no number became 0.0 with    *)
(* one invalid_type fix.                                                   *)
C22_CoordinatesInRange ==
  validated # << >> =>
    \A k \in MoveSteps :
       /\ CoordinateCases(k)
       /\ \A c \in Coordinates :
            IsNumber(Normalized(k).args[c]) =>
              /\ ~IsNaN(Normalized(k).args[c])
              /\ Abs(Normalized(k).args[c].n) <= 10000

(* C22, amended: as stated for every value that is not NaN; a coordinate   *)
(* that is NaN, or a str float turns into NaN, is NaN after validation     *)
(* with no fix, and every other numeric x, y, z of a move_to or            *)
(* move_towards step has absolute value at most 10000.                     *)
C22_CoordinatesChecked ==
  validated # << >> =>
    \A k \in MoveSteps :
       /\ CoordinateCases(k)
       /\ \A c \in Coordinates :
            /\ StandsForNaN(Original(k).args[c]) <=>
                 ( IsNumber(Normalized(k).args[c]) /\ IsNaN(Normalized(k).args[c]) )
            /\ ( IsNumber(Normalized(k).args[c]) /\ ~IsNaN(Normalized(k).args[c]) ) =>
                 Abs(Normalized(k).args[c].n) <= 10000
            /\ HasKey(Original(k).args, c) => ~IsStr(Normalized(k).args[c])

(* a plan whose first step had x "20000", y -20000 and z 10000 and came    *)
(* back with 0.0, 0.0 and 10000, and whose second step had x "12" and y    *)
(* "abc" and came back with 12.0 and 0.0                                   *)
C22_Witness ==
  /\ validated # << >>
  /\ Len(plan[1].steps) = 2
  /\ MoveSteps = {1, 2}
  /\ Original(1).args["x"] = StrV("20000")
  /\ Original(1).args["y"] = NumV(-20000)
  /\ Normalized(1).args["x"] = NumV(0)
  /\ Normalized(1).args["y"] = NumV(0)
  /\ Normalized(1).args["z"] = NumV(10000)
  /\ Original(2).args["x"] = StrV("12")
  /\ Original(2).args["y"] = StrV("abc")
  /\ Normalized(2).args["x"] = NumV(12)
  /\ Normalized(2).args["y"] = NumV(0)
  /\ Len(ZeroFixes(2, "invalid_type")) = 1

(* the fixes of the step k that set its speed *)
SpeedFixes(k) ==
  SelectSeq(FixesOf(Original(k).step_id),
            LAMBDA f : /\ f.fix_type = "physically_unreasonable"
                       /\ f.fixed_value \in {NumV(10), NumV(5)})

(* the three cases of the speed check, for the validated step k whose      *)
(* speed is a number other than NaN                                        *)
SpeedCases(k) ==
  /\ Original(k).args["speed"].n > 50 =>
       /\ Normalized(k).args["speed"] = NumV(10)
       /\ Len(SpeedFixes(k)) = 1
       /\ SpeedFixes(k)[1].original_value = Original(k).args["speed"]
  /\ Original(k).args["speed"].n <= 0 =>
       /\ Normalized(k).args["speed"] = NumV(5)
       /\ Len(SpeedFixes(k)) = 1
       /\ SpeedFixes(k)[1].original_value = Original(k).args["speed"]
  /\ ( Original(k).args["speed"].n > 0 /\ Original(k).args["speed"].n <= 50 ) =>
       /\ Normalized(k).args["speed"] = Original(k).args["speed"]
       /\ SpeedFixes(k) = << >>

(* the validated steps whose speed was a number *)
SpeedSteps ==
  { k \in 1..Len(plan[1].steps) :
      /\ Normalized(k).status = "validated"
      /\ IsNumber(Original(k).args["speed"]) }

(* C23 as stated: for a validated step with a numeric speed s, s > 50      *)
(* becomes 10.0 and s <= 0 becomes 5.0, each with one                      *)
(* physically_unreasonable fix, and 0 < s <= 50 is unchanged with no fix;  *)
(* hence every numeric speed of a validated step lies in (0, 50].          *)
C23_SpeedInRange ==
  validated # << >> =>
    /\ \A k \in SpeedSteps :
         /\ ~IsNaN(Original(k).args["speed"]) => SpeedCases(k)
         /\ ~IsNaN(Normalized(k).args["speed"])
    /\ \A k \in 1..Len(plan[1].steps) :
         ( Normalized(k).status = "validated" /\ IsNumber(Normalized(k).args["speed"]) ) =>
           /\ ~IsNaN(Normalized(k).args["speed"])
           /\ Normalized(k).args["speed"].n > 0
           /\ Normalized(k).args["speed"].n <= 50

(* C23, amended: the three cases as stated; a speed that is NaN is left as *)
(* it is with no fix; every numeric speed of a validated step that is not  *)
(* NaN lies in (0, 50].                                                    *)
C23_SpeedClamped ==
  validated # << >> =>
    /\ \A k \in SpeedSteps :
         /\ ~IsNaN(Original(k).args["speed"]) => SpeedCases(k)
         /\ IsNaN(Original(k).args["speed"]) =>
              /\ Normalized(k).args["speed"] = NaN
              /\ SpeedFixes(k) = << >>
    /\ \A k \in 1..Len(plan[1].steps) :
         ( /\ Normalized(k).status = "validated"
           /\ IsNumber(Normalized(k).args["speed"])
           /\ ~IsNaN(Normalized(k).args["speed"]) ) =>
           /\ IsNumber(Original(k).args["speed"])
           /\ Normalized(k).args["speed"].n > 0
           /\ Normalized(k).args["speed"].n <= 50

(* a plan whose steps had the speeds 0 and -3, the second on the tool      *)
(* hover, and came back with 5.0 and 5.0                                   *)
C23_Witness ==
  /\ validated # << >>
  /\ Len(plan[1].steps) = 2
  /\ Original(1).args["speed"] = NumV(0)
  /\ Normalized(1).args["speed"] = NumV(5)
  /\ Original(2).args["speed"] = NumV(-3)
  /\ Normalized(2).tool_name = "hover"
  /\ Normalized(2).args["speed"] = NumV(5)
  /\ Len(SpeedFixes(1)) = 1
  /\ Len(SpeedFixes(2)) = 1

(* the steps of the plan whose tool exists and whose drone_id is a str     *)
(* that starts with "$"                                                    *)
Placeholders ==
  { k \in 1..Len(plan[1].steps) :
      /\ ToolExists(Original(k).tool_name)
      /\ IsStr(Original(k).args["drone_id"])
      /\ startswith(Chars(Original(k).args["drone_id"].s), << "$" >>) }

ReferenceFixes(k) ==
  SelectSeq(FixesOf(Original(k).step_id),
            LAMBDA f : f.fix_type = "resolved_reference")

(* C24: for a step with an existing tool and a drone_id that starts with   *)
(* "$": when list_drones returns drones, drone_id becomes the identifier   *)
(* of the first and one resolved_reference fix is recorded; when           *)
(* list_drones raises or returns no drone, validate_and_fix returns, with  *)
(* no fix for the drone_id and no warning for the step, the placeholder    *)
(* still in args, the step validated and is_valid what it is when the      *)
(* drones are there.                                                       *)
C24_PlaceholderBestEffort ==
  /\ [](validated # << >> =>
          \A k \in Placeholders :
             /\ Normalized(k).status = "validated"
             /\ WarningsOf(Original(k).step_id) = << >>
             /\ fleet = "drones" =>
                  /\ Normalized(k).args["drone_id"] = StrV(FirstDroneId)
                  /\ ReferenceFixes(k)
                       = << ValidationFix(Original(k).step_id, "resolved_reference",
                                          Original(k).args["drone_id"],
                                          StrV(FirstDroneId)) >>
             /\ fleet \in {"raise", "empty"} =>
                  /\ Normalized(k).args["drone_id"] = Original(k).args["drone_id"]
                  /\ ReferenceFixes(k) = << >>
                  /\ validated[1].is_valid
                       = validate_and_fix(plan[1], heap, "drones").validated_plan.is_valid)
  /\ [][pc = "planned" => (pc' = "validated" /\ validated' # << >> /\ exc' = << >>)]_vars

(* list_drones raised during the validation of a take_off step with        *)
(* drone_id "$drone_id" and altitude -5: the placeholder is still there,   *)
(* the altitude fix is the only fix, the plan is valid                     *)
C24_Witness ==
  /\ validated # << >>
  /\ fleet = "raise"
  /\ Len(plan[1].steps) = 1
  /\ Placeholders = {1}
  /\ Normalized(1).tool_name = "take_off"
  /\ Normalized(1).args["drone_id"] = StrV("$drone_id")
  /\ Normalized(1).status = "validated"
  /\ Len(validated[1].fixes) = 1
  /\ validated[1].fixes[1].fix_type = "invalid_range"
  /\ validated[1].is_valid

(* a fix of the step k that records the change from before to after *)
Recorded(k, before, after) ==
  \E f \in 1..Len(FixesOf(Original(k).step_id)) :
     /\ FixesOf(Original(k).step_id)[f].original_value = before
     /\ FixesOf(Original(k).step_id)[f].fixed_value = after

(* the tool_name of the step k is as it was, or a fix records the change *)
ToolNameRecorded(k) ==
  Normalized(k).tool_name # Original(k).tool_name =>
    Recorded(k, StrV(Original(k).tool_name), StrV(Normalized(k).tool_name))

(* the coordinate was a str that float accepts *)
Coerced(k, key) ==
  /\ key \in Coordinates
  /\ IsStr(Original(k).args[key])
  /\ float(Original(k).args[key].s) # << >>

(* C27 as stated: each arg, and the tool_name, of a normalized step that   *)
(* differs from the value in the original step has a ValidationFix with    *)
(* the step_id whose original_value is the old value and whose fixed_value *)
(* is the new one.                                                         *)
C27_EveryChangeRecorded ==
  validated # << >> =>
    \A k \in 1..Len(plan[1].steps) :
       /\ ToolNameRecorded(k)
       /\ \A key \in ArgKeys :
            Normalized(k).args[key] # Original(k).args[key] =>
              Recorded(k, Original(k).args[key], Normalized(k).args[key])

(* C27, amended: as stated for the tool_name and for every arg but a       *)
(* coordinate x, y, z given as a str that float accepts; such a str is     *)
(* rewritten to its number with no fix, and when that number is then       *)
(* replaced, the fix has the number as original_value.                     *)
C27_ChangesRecorded ==
  validated # << >> =>
    \A k \in 1..Len(plan[1].steps) :
       /\ ToolNameRecorded(k)
       /\ \A key \in ArgKeys :
            /\ ( /\ Normalized(k).args[key] # Original(k).args[key]
                 /\ ~Coerced(k, key) ) =>
                 Recorded(k, Original(k).args[key], Normalized(k).args[key])
            /\ ( Coerced(k, key) /\ Normalized(k).status = "validated" ) =>
                 \/ Normalized(k).args[key] = float(Original(k).args[key].s)[1]
                 \/ Recorded(k, float(Original(k).args[key].s)[1], Normalized(k).args[key])
            /\ ( /\ Coerced(k, key)
                 /\ Normalized(k).status = "validated"
                 /\ ~TooFar(Original(k).args[key]) ) =>
                 ~Recorded(k, Original(k).args[key], Normalized(k).args[key])

(* a plan whose first step had the tool take, a placeholder drone_id and   *)
(* the speed 60, all three rewritten with a fix each, and whose second     *)
(* step had x "12", rewritten to 12.0 with no fix, and y "abc", rewritten  *)
(* to 0.0 with a fix                                                       *)
C27_Witness ==
  /\ validated # << >>
  /\ fleet = "drones"
  /\ Len(plan[1].steps) = 2
  /\ Original(1).tool_name = "take"
  /\ Normalized(1).tool_name = "take_off"
  /\ Normalized(1).args["drone_id"] = StrV(FirstDroneId)
  /\ Normalized(1).args["speed"] = NumV(10)
  /\ Len(FixesOf("s1")) = 3
  /\ Original(2).args["x"] = StrV("12")
  /\ Normalized(2).args["x"] = NumV(12)
  /\ Normalized(2).args["y"] = NumV(0)
  /\ Recorded(2, StrV("abc"), NumV(0))
  /\ ~Recorded(2, StrV("12"), NumV(12))

----------------------------------------------------------------------------
(* Properties of the report of a coordinator run, under Spec *)

(* the steps of the plan the planner returned, in plan order *)
OriginalSteps == Deref(heap, plan[1].steps)

(* C28: once a call of MultiAgentCoordinator.execute has entered           *)
(* ToolsNode.execute, no normalized step has status skipped, and the       *)
(* ExecutionReport, when the executor returns one, has exactly one         *)
(* ExecutionResult per step of the original plan, in plan order.           *)
C28_OneResultPerPlanStep ==
  /\ ExecutorEntered =>
       \A k \in 1..Len(validated[1].normalized_steps) :
          StepsOf(validated[1], heap)[k].status # "skipped"
  /\ report # << >> =>
       /\ Len(report[1].execution_results) = Len(plan[1].steps)
       /\ IdsOf(report[1].execution_results) = IdsOf(OriginalSteps)

(* a plan of two steps, the second of which was refused for the failure of *)
(* the first, reported with one result for each                            *)
C28_Witness ==
  /\ report # << >>
  /\ Len(plan[1].steps) = 2
  /\ IdsOf(report[1].execution_results) = << "s1", "s2" >>
  /\ ~report[1].execution_results[1].success
  /\ ~report[1].execution_results[2].success
  /\ calls = << "raise", "none" >>

(* the history entries of the call that planned plan_id *)
EntriesOf(plan_id) ==
  SelectSeq(execution_history, LAMBDA entry : entry.plan_id = plan_id)

(* the call of MultiAgentCoordinator.execute returns from aggregation *)
ReturnsAggregated == pc = "executed" /\ pc' = "done"

(* C29: a call of MultiAgentCoordinator.execute appends exactly one        *)
(* history entry if and only if it went through execution and aggregation  *)
(* without an exception; a call that ends with an empty plan, an invalid   *)
(* plan or a caught exception leaves the history as it was; and the status *)
(* of every entry is one of completed, partial, failed.                    *)
C29_HistoryOfAggregatedRuns ==
  /\ [](\A k \in 1..Len(execution_history) :
          execution_history[k].status \in {"completed", "partial", "failed"})
  /\ [](pc = "done" =>
          Len(EntriesOf(plan[1].plan_id)) =
            IF result[1].execution # << >> THEN 1 ELSE 0)
  /\ [][ IF ReturnsAggregated
         THEN execution_history' =
                Append(execution_history,
                       [ plan_id |-> plan[1].plan_id,
                         status |-> report[1].final_status ])
         ELSE execution_history' = execution_history ]_vars

(* a first call that executed a plan and left its entry, followed by a     *)
(* second call that returned from the exception of the executor and left   *)
(* none                                                                    *)
C29_Witness ==
  /\ pc = "done"
  /\ runs = 2
  /\ exc = << "TypeError" >>
  /\ result[1].execution = << >>
  /\ Len(execution_history) = 1
  /\ execution_history[1].plan_id = 1
  /\ execution_history[1].status = "partial"

----------------------------------------------------------------------------
(* Properties of a report with no result, under NodeSpec *)

(* every normalized step was marked skipped by the validator, which is so  *)
(* of a plan with no step                                                  *)
AllSkipped ==
  \A k \in 1..Len(validated[1].normalized_steps) :
     StepsOf(validated[1], heap)[k].status = "skipped"

(* C30: ToolsNode.execute returns a report with no ExecutionResult exactly *)
(* when the plan has no step or every step was marked skipped by the       *)
(* validator; that report has final_status completed, no errors and the    *)
(* summary of all of 0 steps executed, and no tool was invoked.            *)
C30_EmptyReportCompleted ==
  report # << >> =>
    /\ report[1].execution_results = << >> <=> AllSkipped
    /\ report[1].execution_results = << >> =>
         /\ report[1].final_status = "completed"
         /\ report[1].errors = << >>
         /\ report[1].summary = [kind |-> "all", successful |-> 0, total |-> 0]
         /\ \A k \in 1..Len(calls) : calls[k] \notin ToolOutcomes

(* the report of a plan of two steps, both marked skipped for a tool that  *)
(* does not exist                                                          *)
C30_Witness ==
  /\ report # << >>
  /\ Len(validated[1].normalized_steps) = 2
  /\ AllSkipped
  /\ ~validated[1].is_valid
  /\ report[1].execution_results = << >>
  /\ report[1].final_status = "completed"

----------------------------------------------------------------------------
(* Properties of the invocation of a tool by ToolsNode.execute, under Spec *)

(* the step the loop is at is handed to tool.invoke *)
Invoked == AtStep /\ \E outcome \in ToolOutcomes : calls' = Append(calls, outcome)

(* C25 as stated: the mapping a tool is invoked with is the step's         *)
(* arguments prepared: a plain mapping of arguments arrives wrapped under  *)
(* the single key input_json, and a mapping that is already wrapped        *)
(* arrives as it is.                                                       *)
C25_ArgsPrepared ==
  [][ Invoked =>
        /\ Keys(CurrentStep.args) \notin { {}, {"input_json"} } =>
             Keys(InvokeInput(CurrentStep)) = {"input_json"}
        /\ Keys(CurrentStep.args) = {"input_json"} =>
             InvokeInput(CurrentStep) = CurrentStep.args ]_vars


====
